---- MODULE Spec2Model ----
(***************************************************************************)
(* Model of the conversion-and-safety core of the natural-language SQL     *)
(* server: the DatabaseManager safety gate and mode state                  *)
(* (src/database_manager.py), the direct-SQL and natural-language          *)
(* handlers (src/server.py) and the language processor: retry controller,  *)
(* response extractor, advisory validator, intent analysis and schema      *)
(* context (src/language_processor.py).                                    *)
(*                                                                         *)
(* Statement texts are sequences of one-character strings, so that strip,  *)
(* upper, startswith, the substring test and the regular expressions are   *)
(* computed as Python computes them.                                       *)
(*                                                                         *)
(* Specifications: Spec (DatabaseManager calls run one at a time),         *)
(* SpecRetry and SpecRetryFair (the retry controller), SpecConc (calls of  *)
(* two threads interleaved), SpecRequest (a natural-language request step  *)
(* by step, among the other handlers) and SpecContext (the schema context  *)
(* builder on table lists of every length, with and without column         *)
(* details and relationships).                                             *)
(***************************************************************************)
EXTENDS Integers, Sequences, FiniteSets, TLC

(***************************************************************************)
(* Bounds of the model.                                                    *)
(***************************************************************************)
MaxExec == 3

MaxRetryAttempts == 11

\* The largest number of tables in a schema snapshot.
MaxTables == 12

\* The most key columns, other columns and relationships of a snapshot.
MaxKeyColumns == 16

MaxDataColumns == 16

MaxRelationships == 11

\* The most rows a SELECT statement produces.
MaxFetched == 101

(***************************************************************************)
(* Python string operations on character sequences.                        *)
(***************************************************************************)
LowerLetters ==
    <<"a","b","c","d","e","f","g","h","i","j","k","l","m",
      "n","o","p","q","r","s","t","u","v","w","x","y","z">>

UpperLetters ==
    <<"A","B","C","D","E","F","G","H","I","J","K","L","M",
      "N","O","P","Q","R","S","T","U","V","W","X","Y","Z">>

Whitespace == {" ", "\t", "\n"}

UpperMap ==
    [c \in {LowerLetters[i] : i \in 1..Len(LowerLetters)} |->
        UpperLetters[CHOOSE i \in 1..Len(LowerLetters) : LowerLetters[i] = c]]

UpperChar(c) == IF c \in DOMAIN UpperMap THEN UpperMap[c] ELSE c

Upper(s) == [i \in 1..Len(s) |-> UpperChar(s[i])]

RECURSIVE LStrip(_)
LStrip(s) ==
    IF s # <<>> /\ Head(s) \in Whitespace THEN LStrip(Tail(s)) ELSE s

RECURSIVE RStrip(_)
RStrip(s) ==
    IF s # <<>> /\ s[Len(s)] \in Whitespace
    THEN RStrip(SubSeq(s, 1, Len(s) - 1)) ELSE s

Strip(s) == RStrip(LStrip(s))

StartsWith(s, prefix) ==
    /\ Len(prefix) <= Len(s)
    /\ \A k \in 1..Len(prefix) : s[k] = prefix[k]

Contains(s, sub) ==
    \E i \in 1..(Len(s) - Len(sub) + 1) :
        \A k \in 1..Len(sub) : s[i + k - 1] = sub[k]

(***************************************************************************)
(* Keyword literals of the two gate layers.                                *)
(***************************************************************************)
KwSELECT ==
    <<"S","E","L","E","C","T">>

KwDROP ==
    <<"D","R","O","P">>

KwTRUNCATE ==
    <<"T","R","U","N","C","A","T","E">>

KwDELETE ==
    <<"D","E","L","E","T","E">>

KwUPDATE ==
    <<"U","P","D","A","T","E">>

KwINSERT ==
    <<"I","N","S","E","R","T">>

KwALTER ==
    <<"A","L","T","E","R">>

KwCREATE ==
    <<"C","R","E","A","T","E">>

KwDELETEFROM ==
    <<"D","E","L","E","T","E"," ","F","R","O","M">>

(***************************************************************************)
(* Statement texts handed to execute_query and to the direct-SQL handler.  *)
(***************************************************************************)
QSelectCustomers ==
    <<"S","E","L","E","C","T"," ","*"," ","F","R","O","M"," ","C","u","s","t",
      "o","m","e","r","s">>

QDeleteFromOrders ==
    <<"D","E","L","E","T","E"," ","F","R","O","M"," ","O","r","d","e","r","s">>

QUpdateAccounts ==
    <<"U","P","D","A","T","E"," ","A","c","c","o","u","n","t","s"," ","S","E",
      "T"," ","b","a","l","a","n","c","e","=","0">>

QDropTable ==
    <<"D","R","O","P"," ","T","A","B","L","E"," ","t">>

QWith ==
    <<"W","I","T","H"," ","c"," ","A","S"," ","(","S","E","L","E","C","T"," ",
      "1",")"," ","S","E","L","E","C","T"," ","2">>

QSelectThenDrop ==
    <<"S","E","L","E","C","T"," ","1",";"," ","D","R","O","P"," ","T","A","B",
      "L","E"," ","t">>

QSelectUpdatedAt ==
    <<"S","E","L","E","C","T"," ","u","p","d","a","t","e","d","_","a","t"," ",
      "F","R","O","M"," ","t">>

QBlank ==
    <<" "," ","\t">>

Queries ==
    {
      \* ""
      <<>>,
      QBlank,
      QSelectCustomers,
      \* "select id from t"
      <<"s","e","l","e","c","t"," ","i","d"," ","f","r","o","m"," ","t">>,
      \* "  SELECT 1\n"
      <<" "," ","S","E","L","E","C","T"," ","1","\n">>,
      QDeleteFromOrders,
      QUpdateAccounts,
      \* "INSERT INTO t VALUES (1)"
      <<"I","N","S","E","R","T"," ","I","N","T","O"," ","t"," ","V","A","L",
        "U","E","S"," ","(","1",")">>,
      QDropTable,
      \* "truncate table t"
      <<"t","r","u","n","c","a","t","e"," ","t","a","b","l","e"," ","t">>,
      \* "ALTER TABLE t ADD c int"
      <<"A","L","T","E","R"," ","T","A","B","L","E"," ","t"," ","A","D","D",
        " ","c"," ","i","n","t">>,
      \* "CREATE TABLE t (c int)"
      <<"C","R","E","A","T","E"," ","T","A","B","L","E"," ","t"," ","(","c",
        " ","i","n","t",")">>,
      \* "DELETE  FROM t"
      <<"D","E","L","E","T","E"," "," ","F","R","O","M"," ","t">>,
      QWith,
      QSelectThenDrop,
      QSelectUpdatedAt,
      \* "SELECT 1; DELETE FROM t"
      <<"S","E","L","E","C","T"," ","1",";"," ","D","E","L","E","T","E"," ",
        "F","R","O","M"," ","t">>,
      \* "SELECT 1; insert into t values (1)"
      <<"S","E","L","E","C","T"," ","1",";"," ","i","n","s","e","r","t"," ",
        "i","n","t","o"," ","t"," ","v","a","l","u","e","s"," ","(","1",")">>,
      \* "SELECT 1; TRUNCATE TABLE t"
      <<"S","E","L","E","C","T"," ","1",";"," ","T","R","U","N","C","A","T",
        "E"," ","T","A","B","L","E"," ","t">>,
      \* "SELECT alter_id FROM t"
      <<"S","E","L","E","C","T"," ","a","l","t","e","r","_","i","d"," ","F",
        "R","O","M"," ","t">>,
      \* "SELECT created FROM t"
      <<"S","E","L","E","C","T"," ","c","r","e","a","t","e","d"," ","F","R",
        "O","M"," ","t">>,
      \* "SELECT* FROM t"
      <<"S","E","L","E","C","T","*"," ","F","R","O","M"," ","t">>,
      \* " \nDROP TABLE t"
      <<" ","\n","D","R","O","P"," ","T","A","B","L","E"," ","t">>,
      \* "selected_rows 1"
      <<"s","e","l","e","c","t","e","d","_","r","o","w","s"," ","1">>
    }

(***************************************************************************)
(* Safety gate (DatabaseManager).                                          *)
(***************************************************************************)
NoKeyword == <<>>

NoError == <<>>

FirstKeyword(keywords, text) ==
    LET hits == {i \in 1..Len(keywords) : Contains(text, keywords[i])}
    IN  IF hits = {} THEN NoKeyword
        ELSE keywords[CHOOSE i \in hits : \A j \in hits : i <= j]

\* The SELECT-only deny-list with UPDATE left out.
SelectOnlyKeywordsNoUpdate ==
    <<KwDROP, KwTRUNCATE, KwDELETE, KwINSERT, KwALTER, KwCREATE>>

SelectOnlyKeywords ==
    <<KwDROP, KwTRUNCATE, KwDELETE, KwUPDATE, KwINSERT, KwALTER, KwCREATE>>

\* The unrestricted deny-list scanning for DELETE instead of DELETE FROM.
UnrestrictedKeywordsBareDelete ==
    <<KwDROP, KwTRUNCATE, KwDELETE, KwALTER, KwCREATE>>

UnrestrictedKeywords ==
    <<KwDROP, KwTRUNCATE, KwDELETEFROM, KwALTER, KwCREATE>>

MsgAllAllowed == "All operations allowed"

MsgOnlySelect == "Only SELECT queries are allowed in SELECT-only mode"

MsgForbidden == "SELECT-only mode: Query contains forbidden keyword: "

MsgValidated == "SELECT query validated"

MsgEmpty == "Empty query provided"

MsgDangerous == "Query contains potentially dangerous keyword: "

MsgToggleDisabled == "Mode toggle is disabled by configuration"

\* The Mode Gate with its test of the mode inverted.
ValidateQueryModeInverted(mode, query) ==
    IF mode
    THEN [is_valid |-> TRUE, message |-> MsgAllAllowed, keyword |-> NoKeyword]
    ELSE LET query_upper == Upper(Strip(query))
             keyword == FirstKeyword(SelectOnlyKeywords, query_upper)
         IN  IF ~StartsWith(query_upper, KwSELECT)
             THEN [is_valid |-> FALSE, message |-> MsgOnlySelect,
                   keyword |-> NoKeyword]
             ELSE IF keyword # NoKeyword
             THEN [is_valid |-> FALSE, message |-> MsgForbidden,
                   keyword |-> keyword]
             ELSE [is_valid |-> TRUE, message |-> MsgValidated,
                   keyword |-> NoKeyword]

\* The Mode Gate testing for SELECT anywhere in the text instead of at
\* its start.
ValidateQuerySelectAnywhere(mode, query) ==
    IF ~mode
    THEN [is_valid |-> TRUE, message |-> MsgAllAllowed, keyword |-> NoKeyword]
    ELSE LET query_upper == Upper(Strip(query))
             keyword == FirstKeyword(SelectOnlyKeywords, query_upper)
         IN  IF ~Contains(query_upper, KwSELECT)
             THEN [is_valid |-> FALSE, message |-> MsgOnlySelect,
                   keyword |-> NoKeyword]
             ELSE IF keyword # NoKeyword
             THEN [is_valid |-> FALSE, message |-> MsgForbidden,
                   keyword |-> keyword]
             ELSE [is_valid |-> TRUE, message |-> MsgValidated,
                   keyword |-> NoKeyword]

\* _validate_query_for_select_only_mode; mode is the value of
\* self._select_only_mode read at its first line.
ValidateQueryForSelectOnlyMode(mode, query) ==
    IF ~mode
    THEN [is_valid |-> TRUE, message |-> MsgAllAllowed, keyword |-> NoKeyword]
    ELSE LET query_upper == Upper(Strip(query))
             keyword == FirstKeyword(SelectOnlyKeywords, query_upper)
         IN  IF ~StartsWith(query_upper, KwSELECT)
             THEN [is_valid |-> FALSE, message |-> MsgOnlySelect,
                   keyword |-> NoKeyword]
             ELSE IF keyword # NoKeyword
             THEN [is_valid |-> FALSE, message |-> MsgForbidden,
                   keyword |-> keyword]
             ELSE [is_valid |-> TRUE, message |-> MsgValidated,
                   keyword |-> NoKeyword]

\* The keyword scan of execute_query outside SELECT-only mode: the first
\* keyword of the list that blocks the statement, or NoKeyword.
UnrestrictedGuard(query) ==
    LET query_upper == Upper(query)
        leads_with_select == StartsWith(Strip(query_upper), KwSELECT)
        hits == {i \in 1..Len(UnrestrictedKeywords) :
                    /\ Contains(query_upper, UnrestrictedKeywords[i])
                    /\ ~leads_with_select}
    IN  IF hits = {} THEN NoKeyword
        ELSE UnrestrictedKeywords[CHOOSE i \in hits : \A j \in hits : i <= j]

\* What the database connection does with a forwarded statement.
DbOutcomes == {"ok", "timeout", "sqlerror", "unexpected"}

IsEmptyQuery(query) == query = <<>> \/ Strip(query) = <<>>

Rejected(message, keyword) ==
    [result |-> [success |-> FALSE, error |-> <<message, keyword>>,
                 kind |-> "rejected"],
     forwarded |-> FALSE]

\* The error text of execute_query's three except branches: the fixed text
\* the branch puts first, and the exception it formats after it.
ExecutionError(db) ==
    <<IF db = "timeout" THEN "Query timeout after QUERY_TIMEOUT seconds: "
      ELSE IF db = "unexpected" THEN "Unexpected error: "
      ELSE "",
      db>>

\* The statement reached conn.execute; db is the connection's outcome.
Forward(query, db) ==
    [result |->
        IF db = "ok"
        THEN [success |-> TRUE, error |-> NoError,
              kind |-> IF StartsWith(Upper(Strip(query)), KwSELECT)
                       THEN "data" ELSE "rows_affected"]
        ELSE [success |-> FALSE, error |-> ExecutionError(db),
              kind |-> "execution_error"],
     forwarded |-> TRUE]

\* The checks of execute_query with the Mode Gate consulted before the test
\* for an empty statement.
ExecuteQueryGateModeFirst(query, mode_at_validate, mode_at_guard) ==
    LET select_only_validation ==
            ValidateQueryForSelectOnlyMode(mode_at_validate, query)
        keyword == IF ~mode_at_guard THEN UnrestrictedGuard(query)
                   ELSE NoKeyword
    IN  IF ~select_only_validation.is_valid
        THEN [accepted |-> FALSE,
              message |-> select_only_validation.message,
              keyword |-> select_only_validation.keyword]
        ELSE IF IsEmptyQuery(query)
        THEN [accepted |-> FALSE, message |-> MsgEmpty, keyword |-> NoKeyword]
        ELSE IF keyword # NoKeyword
        THEN [accepted |-> FALSE, message |-> MsgDangerous,
              keyword |-> keyword]
        ELSE [accepted |-> TRUE, message |-> "", keyword |-> NoKeyword]

\* The checks execute_query makes before it opens a connection.
\* mode_at_validate is self._select_only_mode as read by the Mode Gate,
\* mode_at_guard as read by the keyword guard.
ExecuteQueryGate(query, mode_at_validate, mode_at_guard) ==
    IF IsEmptyQuery(query)
    THEN [accepted |-> FALSE, message |-> MsgEmpty, keyword |-> NoKeyword]
    ELSE LET select_only_validation ==
                 ValidateQueryForSelectOnlyMode(mode_at_validate, query)
             keyword == IF ~mode_at_guard THEN UnrestrictedGuard(query)
                        ELSE NoKeyword
         IN  IF ~select_only_validation.is_valid
             THEN [accepted |-> FALSE,
                   message |-> select_only_validation.message,
                   keyword |-> select_only_validation.keyword]
             ELSE IF keyword # NoKeyword
             THEN [accepted |-> FALSE, message |-> MsgDangerous,
                   keyword |-> keyword]
             ELSE [accepted |-> TRUE, message |-> "", keyword |-> NoKeyword]

\* execute_query logging a rejection without returning.
ExecuteQueryRunNoReturn(query, gate, db) == Forward(query, db)

\* execute_query: the gate, then the connection.
ExecuteQueryRun(query, gate, db) ==
    IF gate.accepted THEN Forward(query, db)
    ELSE Rejected(gate.message, gate.keyword)

\* MAX_QUERY_RESULTS as config.py sets it when the environment does not.
MaxQueryResults == 100

\* The numbers of rows fetchall() may return.
FetchedCounts ==
    {0, MaxQueryResults - 1, MaxQueryResults, MaxFetched}

\* The row fields execute_query gives the result of a SELECT statement for
\* which fetchall() returned fetched rows: len(rows) after the slice, and
\* the limited flag.
SelectResult(result, fetched) ==
    IF result.success /\ result.kind = "data"
    THEN LET rows == IF fetched > MaxQueryResults THEN MaxQueryResults
                     ELSE fetched
         IN  [success |-> TRUE, error |-> NoError, kind |-> "data",
              row_count |-> rows, limited |-> rows = MaxQueryResults]
    ELSE result

(***************************************************************************)
(* Response extractor (LanguageProcessor._extract_sql_from_ai_response):   *)
(* the two regular expressions, matched as Python's re.search matches      *)
(* them with DOTALL and IGNORECASE.                                        *)
(***************************************************************************)
MarkerSql ==
    <<"S","Q","L",":">>

MarkerExplanation ==
    <<"\n","E","X","P","L","A","N","A","T","I","O","N">>

\* The backtick character, which a TLA+ string cannot hold.
Backtick == "backtick"

MarkerFence ==
    <<Backtick,Backtick,Backtick>>

MarkerFenceTag ==
    <<"S","Q","L">>


RECURSIVE WsRun(_, _)
\* The number of whitespace characters of s from index i on.
WsRun(s, i) ==
    IF i <= Len(s) /\ s[i] \in Whitespace THEN 1 + WsRun(s, i + 1) ELSE 0

\* pattern (upper-case) occurs in s at index i, ignoring case.
MatchesAt(s, i, pattern) ==
    /\ i >= 1
    /\ i + Len(pattern) - 1 <= Len(s)
    /\ \A k \in 1..Len(pattern) : UpperChar(s[i + k - 1]) = pattern[k]

SetMin(S) == CHOOSE x \in S : \A y \in S : x <= y

NoMatch == [ok |-> FALSE, group |-> <<>>]

\* (?=\n\n|\nExplanation|\Z) at index e.
SqlLookahead(s, e) ==
    \/ e = Len(s) + 1
    \/ MatchesAt(s, e, <<"\n", "\n">>)
    \/ MatchesAt(s, e, MarkerExplanation)

\* SQL:\s*(.+?)(?=...) anchored at index p: \s* takes the whole run of
\* whitespace unless that leaves no character for the group, and the group
\* ends at the first index where the lookahead holds.
SqlMarkerMatch(s, p) ==
    LET a == p + Len(MarkerSql)
        run == WsRun(s, a)
        g == IF a + run <= Len(s) THEN a + run ELSE a + run - 1
    IN  IF ~MatchesAt(s, p, MarkerSql) \/ g < a
        THEN NoMatch
        ELSE [ok |-> TRUE,
              group |-> SubSeq(s, g,
                               SetMin({e \in (g + 1)..(Len(s) + 1) :
                                          SqlLookahead(s, e)}) - 1)]

\* \s* and the closing fence at index e.
FenceCloses(s, e) == MatchesAt(s, e + WsRun(s, e), MarkerFence)

\* a + run, a + run - 1, ..., a
Descending(a, run) == [i \in 1..(run + 1) |-> a + run + 1 - i]

\* fence (?:sql)?\s*(.+?)\s* fence, anchored at index p: the starts of the group
\* in the order backtracking tries them, and the first that can be closed.
CodeBlockMatch(s, p) ==
    LET a == p + Len(MarkerFence)
        tagged == a + Len(MarkerFenceTag)
        starts == (IF MatchesAt(s, a, MarkerFenceTag)
                   THEN Descending(tagged, WsRun(s, tagged)) ELSE <<>>)
                  \o Descending(a, WsRun(s, a))
        Ends(g) == {e \in (g + 1)..(Len(s) + 1) : FenceCloses(s, e)}
        good == {i \in 1..Len(starts) :
                    starts[i] <= Len(s) /\ Ends(starts[i]) # {}}
    IN  IF ~MatchesAt(s, p, MarkerFence) \/ good = {}
        THEN NoMatch
        ELSE LET g == starts[SetMin(good)]
             IN  [ok |-> TRUE, group |-> SubSeq(s, g, SetMin(Ends(g)) - 1)]

\* re.search with the SQL: pattern: the match at the leftmost index that
\* has one.
SqlMarkerSearch(s) ==
    LET found == {p \in 1..Len(s) : SqlMarkerMatch(s, p).ok}
    IN  IF found = {} THEN NoMatch ELSE SqlMarkerMatch(s, SetMin(found))

\* re.search with the fenced-block pattern.
CodeBlockSearch(s) ==
    LET found == {p \in 1..Len(s) : CodeBlockMatch(s, p).ok}
    IN  IF found = {} THEN NoMatch ELSE CodeBlockMatch(s, SetMin(found))

\* An extractor that falls back to the whole text when neither pattern
\* matches.
ExtractSqlFallbackWholeText(ai_response) ==
    LET sql_match == SqlMarkerSearch(ai_response)
        code_block_match == CodeBlockSearch(ai_response)
    IN  IF sql_match.ok
        THEN [matched |-> TRUE, sql |-> Strip(sql_match.group)]
        ELSE IF code_block_match.ok
        THEN [matched |-> TRUE, sql |-> Strip(code_block_match.group)]
        ELSE [matched |-> TRUE, sql |-> Strip(ai_response)]

\* _extract_sql_from_ai_response: matched is FALSE for None.
ExtractSqlFromAiResponse(ai_response) ==
    LET sql_match == SqlMarkerSearch(ai_response)
        code_block_match == CodeBlockSearch(ai_response)
    IN  IF sql_match.ok
        THEN [matched |-> TRUE, sql |-> Strip(sql_match.group)]
        ELSE IF code_block_match.ok
        THEN [matched |-> TRUE, sql |-> Strip(code_block_match.group)]
        ELSE [matched |-> FALSE, sql |-> <<>>]

(***************************************************************************)
(* Reply texts of the Completion Service.                                  *)
(***************************************************************************)
RNoMarker ==
    <<"I"," ","c","a","n","n","o","t"," ","h","e","l","p"," ","w","i","t","h",
      " ","t","h","a","t">>

RLowerGhost ==
    <<"H","e","r","e"," ","y","o","u"," ","g","o",".","\n","s","q","l",":",
      " "," ","S","E","L","E","C","T"," ","*"," ","F","R","O","M"," ","G","h",
      "o","s","t","\n","\n","A","n","a","l","y","s","i","s",":"," ","r","e",
      "a","d","s"," ","G","h","o","s","t">>

\* The replies the Completion Service gives; <fence> in a comment stands for
\* three backticks.
Responses ==
    {
      \* "SQL: SELECT * FROM Customers\nExplanation: lists all customers"
      <<"S","Q","L",":"," ","S","E","L","E","C","T"," ","*"," ","F","R","O",
        "M"," ","C","u","s","t","o","m","e","r","s","\n","E","x","p","l","a",
        "n","a","t","i","o","n",":"," ","l","i","s","t","s"," ","a","l","l",
        " ","c","u","s","t","o","m","e","r","s">>,
      RNoMarker,
      \* "<fence>sql\nDELETE FROM Orders\n<fence>"
      <<Backtick,Backtick,Backtick,"s","q","l","\n","D","E","L","E","T","E",
        " ","F","R","O","M"," ","O","r","d","e","r","s","\n",Backtick,
        Backtick,Backtick>>,
      RLowerGhost,
      \* "Try <fence> SELECT 1"
      <<"T","r","y"," ",Backtick,Backtick,Backtick," ","S","E","L","E","C",
        "T"," ","1">>,
      \* "SQL: DROP TABLE t"
      <<"S","Q","L",":"," ","D","R","O","P"," ","T","A","B","L","E"," ","t">>,
      \* "SQL: \n"
      <<"S","Q","L",":"," ","\n">>,
      \* "SQL: selected_rows 1"
      <<"S","Q","L",":"," ","s","e","l","e","c","t","e","d","_","r","o","w",
        "s"," ","1">>,
      \* "<fence>sql<fence>"
      <<Backtick,Backtick,Backtick,"s","q","l",Backtick,Backtick,Backtick>>,
      \* "SQL: UPDATE Accounts SET balance=0\nexplanation: x"
      <<"S","Q","L",":"," ","U","P","D","A","T","E"," ","A","c","c","o","u",
        "n","t","s"," ","S","E","T"," ","b","a","l","a","n","c","e","=","0",
        "\n","e","x","p","l","a","n","a","t","i","o","n",":"," ","x">>,
      \* "SQL: SELECT 1\nAnalysis: one row"
      <<"S","Q","L",":"," ","S","E","L","E","C","T"," ","1","\n","A","n","a",
        "l","y","s","i","s",":"," ","o","n","e"," ","r","o","w">>
    }

(***************************************************************************)
(* Advisory validator (LanguageProcessor._validate_and_optimize_generated_  *)
(* sql and _extract_table_names_from_sql).                                 *)
(***************************************************************************)
LowerMap ==
    [c \in {UpperLetters[i] : i \in 1..Len(UpperLetters)} |->
        LowerLetters[CHOOSE i \in 1..Len(UpperLetters) : UpperLetters[i] = c]]

Lower(s) ==
    [i \in 1..Len(s) |->
        IF s[i] \in DOMAIN LowerMap THEN LowerMap[s[i]] ELSE s[i]]

DigitSeq == <<"0","1","2","3","4","5","6","7","8","9">>

Digits == {DigitSeq[i] : i \in 1..Len(DigitSeq)}

\* [a-zA-Z_]
IsIdentifierStart(c) ==
    c \in DOMAIN UpperMap \/ c \in DOMAIN LowerMap \/ c = "_"

\* [a-zA-Z0-9_]
IsIdentifierChar(c) == IsIdentifierStart(c) \/ c \in Digits

RECURSIVE IdentifierRun(_, _)
IdentifierRun(s, i) ==
    IF i <= Len(s) /\ IsIdentifierChar(s[i])
    THEN 1 + IdentifierRun(s, i + 1) ELSE 0

\* (?:FROM|JOIN|INTO|UPDATE)\s+([a-zA-Z_][a-zA-Z0-9_]*) anchored at index p.
TableNameMatch(s, p) ==
    LET keywords == {<<"F","R","O","M">>, <<"J","O","I","N">>,
                     <<"I","N","T","O">>, KwUPDATE}
        words == {w \in keywords : MatchesAt(s, p, w)}
    IN  IF words = {} THEN [ok |-> FALSE, group |-> <<>>, end |-> p]
        ELSE LET a == p + Len(CHOOSE w \in words : TRUE)
                 g == a + WsRun(s, a)
             IN  IF g > a /\ g <= Len(s) /\ IsIdentifierStart(s[g])
                 THEN [ok |-> TRUE,
                       group |-> SubSeq(s, g, g + IdentifierRun(s, g) - 1),
                       end |-> g + IdentifierRun(s, g)]
                 ELSE [ok |-> FALSE, group |-> <<>>, end |-> p]

\* re.findall from index p on: the matches left to right, each search
\* resuming where the previous match ended.
RECURSIVE FindAllTableNames(_, _)
FindAllTableNames(s, p) ==
    IF p > Len(s) THEN {}
    ELSE LET m == TableNameMatch(s, p)
         IN  IF m.ok THEN {m.group} \cup FindAllTableNames(s, m.end)
             ELSE FindAllTableNames(s, p + 1)

\* _extract_table_names_from_sql: list(set(matches)), in no particular order.
ExtractTableNamesFromSql(sql_query) == FindAllTableNames(sql_query, 1)

WarnNoCommand == "Query does not start with a valid SQL command"

WarnDangerous == "Query contains potentially dangerous operation: "

WarnTableNotFound == "Table not found in database schema"

ValidCommands == {KwSELECT, KwINSERT, KwUPDATE, KwDELETE}

\* 'DROP ', 'TRUNCATE ', 'ALTER '
DangerousPatterns ==
    {KwDROP \o <<" ">>, KwTRUNCATE \o <<" ">>, KwALTER \o <<" ">>}

\* The schema snapshot the server hands to the language processor: the
\* TABLE_NAME of each table in the order the database listed them, and the
\* keys of table_details in insertion order (the key is present only when
\* the table list is not empty).
NoSchema ==
    [success |-> FALSE, tables |-> <<>>, has_table_details |-> FALSE,
     table_details |-> <<>>, column_details |-> <<>>,
     has_relationships |-> FALSE, relationships |-> <<>>]

\* A validator that withholds a statement it has warnings about.
ValidateAndOptimizeBlocking(generated_sql_query, schema) ==
    LET optimized_query == Strip(generated_sql_query)
        query_upper == Upper(optimized_query)
        tables == schema.tables
        available_table_names == {Lower(tables[i]) : i \in 1..Len(tables)}
        validation_warnings ==
            (IF \E command \in ValidCommands : StartsWith(query_upper, command)
             THEN {} ELSE {<<WarnNoCommand, <<>>>>})
            \cup {<<WarnDangerous, Strip(pattern)>> :
                     pattern \in {d \in DangerousPatterns :
                                     Contains(query_upper, d)}}
            \cup (IF tables = <<>> THEN {}
                  ELSE {<<WarnTableNotFound, table_name>> :
                           table_name \in
                             {t \in ExtractTableNamesFromSql(optimized_query) :
                                 Lower(t) \notin available_table_names}})
    IN  [query |-> IF validation_warnings = {} THEN optimized_query ELSE <<>>,
         warnings |-> validation_warnings,
         is_valid |-> validation_warnings = {}]

\* _validate_and_optimize_generated_sql
ValidateAndOptimizeGeneratedSql(generated_sql_query, schema) ==
    LET optimized_query == Strip(generated_sql_query)
        query_upper == Upper(optimized_query)
        tables == schema.tables
        available_table_names == {Lower(tables[i]) : i \in 1..Len(tables)}
        validation_warnings ==
            (IF \E command \in ValidCommands : StartsWith(query_upper, command)
             THEN {} ELSE {<<WarnNoCommand, <<>>>>})
            \cup {<<WarnDangerous, Strip(pattern)>> :
                     pattern \in {d \in DangerousPatterns :
                                     Contains(query_upper, d)}}
            \cup (IF tables = <<>> THEN {}
                  ELSE {<<WarnTableNotFound, table_name>> :
                           table_name \in
                             {t \in ExtractTableNamesFromSql(optimized_query) :
                                 Lower(t) \notin available_table_names}})
    IN  [query |-> optimized_query,
         warnings |-> validation_warnings,
         is_valid |-> validation_warnings = {}]

(***************************************************************************)
(* Intent analysis and schema context                                      *)
(* (LanguageProcessor._analyze_natural_language_intent and                 *)
(* _build_comprehensive_schema_context).                                   *)
(***************************************************************************)
InsertCues ==
    {
      \* "insert"
      <<"i","n","s","e","r","t">>,
      \* "add"
      <<"a","d","d">>,
      \* "create new"
      <<"c","r","e","a","t","e"," ","n","e","w">>
    }

UpdateCues ==
    {
      \* "update"
      <<"u","p","d","a","t","e">>,
      \* "modify"
      <<"m","o","d","i","f","y">>,
      \* "change"
      <<"c","h","a","n","g","e">>,
      \* "set"
      <<"s","e","t">>
    }

DeleteCues ==
    {
      \* "delete"
      <<"d","e","l","e","t","e">>,
      \* "remove"
      <<"r","e","m","o","v","e">>,
      \* "drop"
      <<"d","r","o","p">>
    }

\* An operation detection that tests the DELETE cues first.
QueryTypeDeleteFirst(natural_language_query) ==
    LET query_lowercase == Lower(natural_language_query)
    IN  IF \E word \in DeleteCues : Contains(query_lowercase, word)
        THEN "DELETE"
        ELSE IF \E word \in InsertCues : Contains(query_lowercase, word)
        THEN "INSERT"
        ELSE IF \E word \in UpdateCues : Contains(query_lowercase, word)
        THEN "UPDATE"
        ELSE "SELECT"

\* The query_type of _analyze_natural_language_intent.
QueryType(natural_language_query) ==
    LET query_lowercase == Lower(natural_language_query)
    IN  IF \E word \in InsertCues : Contains(query_lowercase, word)
        THEN "INSERT"
        ELSE IF \E word \in UpdateCues : Contains(query_lowercase, word)
        THEN "UPDATE"
        ELSE IF \E word \in DeleteCues : Contains(query_lowercase, word)
        THEN "DELETE"
        ELSE "SELECT"

AnalyzeNaturalLanguageIntent(natural_language_query) ==
    [query_type |-> QueryType(natural_language_query)]

\* _identify_relevant_tables
IdentifyRelevantTables(database_tables, query_analysis_result) ==
    database_tables

\* The first n elements of a sequence: seq[:n]
Take(seq, n) == SubSeq(seq, 1, IF Len(seq) < n THEN Len(seq) ELSE n)

\* The slice bound of the table list.
TableListLimit == 10

\* The table list of the context without a bound.
TableListLinesUnbounded(relevant_tables) ==
    [i \in 1..Len(relevant_tables) |-> <<"- ", relevant_tables[i]>>]

\* for table in relevant_tables[:10]: one "- name" line each.
TableListLines(relevant_tables) ==
    LET listed == Take(relevant_tables, TableListLimit)
    IN  [i \in 1..Len(listed) |-> <<"- ", listed[i]>>]

\* dict.get(key, default) on a row or descriptor.
Get(row, key, default) == IF key \in DOMAIN row THEN row[key] ELSE default

\* _format_column_information: the values it formats into the line.
FormatColumnInformation(column_data) ==
    LET column_name == Get(column_data, "COLUMN_NAME", "unknown")
        data_type == Get(column_data, "DATA_TYPE", "unknown")
        max_length == Get(column_data, "CHARACTER_MAXIMUM_LENGTH", <<>>)
    IN  IF max_length # <<>> THEN <<column_name, data_type, max_length>>
        ELSE <<column_name, data_type>>

\* The slice bound of the data columns of one table.
DataColumnLimit == 15

\* The slice bound of the relationships.
RelationshipLimit == 10

\* The lines of one entry of table_details: the heading, every key column,
\* and the first 15 of the other columns.
TableDetailLines(table_name, column_details) ==
    LET \* column.get('is_primary_key') or column.get('is_foreign_key')
        IsKeyColumn(column) ==
            \/ Get(column, "is_primary_key", 0) # 0
            \/ Get(column, "is_foreign_key", 0) # 0
        ColumnLines(columns) ==
            [i \in 1..Len(columns) |->
                <<"    ", FormatColumnInformation(columns[i])>>]
        primary_key_columns ==
            SelectSeq(column_details, LAMBDA column : IsKeyColumn(column))
        regular_data_columns ==
            SelectSeq(column_details, LAMBDA column : ~IsKeyColumn(column))
    IN  <<<<"Table: ", table_name>>>>
        \o (IF primary_key_columns # <<>>
            THEN <<<<"  Key Columns:", <<>>>>>>
                 \o ColumnLines(primary_key_columns)
            ELSE <<>>)
        \o (IF regular_data_columns # <<>>
            THEN <<<<"  Data Columns:", <<>>>>>>
                 \o ColumnLines(Take(regular_data_columns, DataColumnLimit))
            ELSE <<>>)

RECURSIVE DetailLines(_, _)
\* The loop over table_details.items() from entry i on;
\* _is_table_contextually_relevant is True for every table.
DetailLines(schema, i) ==
    IF i > Len(schema.table_details) THEN <<>>
    ELSE TableDetailLines(schema.table_details[i], schema.column_details[i])
         \o DetailLines(schema, i + 1)

\* for relationship in relationships[:10]: one line each.
RelationshipLines(relationships) ==
    LET listed == Take(relationships, RelationshipLimit)
    IN  [i \in 1..Len(listed) |->
            <<"- . -> .",
              <<listed[i].from_table, listed[i].from_column,
                listed[i].to_table, listed[i].to_column>>>>]

\* _build_comprehensive_schema_context: the lines of the context, each a
\* pair of its fixed text and the value formatted into it.
BuildComprehensiveSchemaContext(schema, query_analysis_result) ==
    <<<<"Query Operation Type: ", query_analysis_result.query_type>>,
      <<"Most Relevant Database Tables:", <<>>>>>>
    \o TableListLines(IdentifyRelevantTables(schema.tables,
                                              query_analysis_result))
    \o (IF schema.has_table_details
        THEN <<<<"Detailed Schema Information:", <<>>>>>>
             \o DetailLines(schema, 1)
        ELSE <<>>)
    \o (IF schema.has_relationships
        THEN <<<<"Table Relationships:", <<>>>>>>
             \o RelationshipLines(schema.relationships)
        ELSE <<>>)
    \o <<<<"SQL Server Best Practices:", <<>>>>>>

(***************************************************************************)
(* Schema and sample-data retrieval (DatabaseManager.get_table_schema and  *)
(* get_sample_data). The statements are written with each run of           *)
(* whitespace as one space.                                                *)
(***************************************************************************)
QListTables ==
    <<"S","E","L","E","C","T"," ","t",".","T","A","B","L","E","_","S","C","H",
      "E","M","A",","," ","t",".","T","A","B","L","E","_","N","A","M","E",",",
      " ","t",".","T","A","B","L","E","_","T","Y","P","E",","," ","I","S","N",
      "U","L","L","(","e","p",".","v","a","l","u","e",","," ","'","'",")"," ",
      "a","s"," ","T","A","B","L","E","_","D","E","S","C","R","I","P","T","I",
      "O","N"," ","F","R","O","M"," ","I","N","F","O","R","M","A","T","I","O",
      "N","_","S","C","H","E","M","A",".","T","A","B","L","E","S"," ","t"," ",
      "L","E","F","T"," ","J","O","I","N"," ","s","y","s",".","t","a","b","l",
      "e","s"," ","s","t"," ","O","N"," ","t",".","T","A","B","L","E","_","N",
      "A","M","E"," ","="," ","s","t",".","n","a","m","e"," ","L","E","F","T",
      " ","J","O","I","N"," ","s","y","s",".","e","x","t","e","n","d","e","d",
      "_","p","r","o","p","e","r","t","i","e","s"," ","e","p"," ","O","N"," ",
      "s","t",".","o","b","j","e","c","t","_","i","d"," ","="," ","e","p",".",
      "m","a","j","o","r","_","i","d"," ","A","N","D"," ","e","p",".","m","i",
      "n","o","r","_","i","d"," ","="," ","0"," ","A","N","D"," ","e","p",".",
      "n","a","m","e"," ","="," ","'","M","S","_","D","e","s","c","r","i","p",
      "t","i","o","n","'"," ","W","H","E","R","E"," ","t",".","T","A","B","L",
      "E","_","T","Y","P","E"," ","="," ","'","B","A","S","E"," ","T","A","B",
      "L","E","'"," ","O","R","D","E","R"," ","B","Y"," ","t",".","T","A","B",
      "L","E","_","S","C","H","E","M","A",","," ","t",".","T","A","B","L","E",
      "_","N","A","M","E">>

QTableColumns ==
    <<"S","E","L","E","C","T"," ","c",".","C","O","L","U","M","N","_","N","A",
      "M","E",","," ","c",".","D","A","T","A","_","T","Y","P","E",","," ","c",
      ".","I","S","_","N","U","L","L","A","B","L","E",","," ","c",".","C","O",
      "L","U","M","N","_","D","E","F","A","U","L","T",","," ","c",".","C","H",
      "A","R","A","C","T","E","R","_","M","A","X","I","M","U","M","_","L","E",
      "N","G","T","H",","," ","c",".","N","U","M","E","R","I","C","_","P","R",
      "E","C","I","S","I","O","N",","," ","c",".","N","U","M","E","R","I","C",
      "_","S","C","A","L","E",","," ","C","A","S","E"," ","W","H","E","N"," ",
      "p","k",".","C","O","L","U","M","N","_","N","A","M","E"," ","I","S"," ",
      "N","O","T"," ","N","U","L","L"," ","T","H","E","N"," ","1"," ","E","L",
      "S","E"," ","0"," ","E","N","D"," ","a","s"," ","I","S","_","P","R","I",
      "M","A","R","Y","_","K","E","Y",","," ","C","A","S","E"," ","W","H","E",
      "N"," ","f","k",".","C","O","L","U","M","N","_","N","A","M","E"," ","I",
      "S"," ","N","O","T"," ","N","U","L","L"," ","T","H","E","N"," ","1"," ",
      "E","L","S","E"," ","0"," ","E","N","D"," ","a","s"," ","I","S","_","F",
      "O","R","E","I","G","N","_","K","E","Y"," ","F","R","O","M"," ","I","N",
      "F","O","R","M","A","T","I","O","N","_","S","C","H","E","M","A",".","C",
      "O","L","U","M","N","S"," ","c"," ","L","E","F","T"," ","J","O","I","N",
      " ","I","N","F","O","R","M","A","T","I","O","N","_","S","C","H","E","M",
      "A",".","T","A","B","L","E","_","C","O","N","S","T","R","A","I","N","T",
      "S"," ","t","c"," ","O","N"," ","c",".","T","A","B","L","E","_","N","A",
      "M","E"," ","="," ","t","c",".","T","A","B","L","E","_","N","A","M","E",
      " ","A","N","D"," ","c",".","T","A","B","L","E","_","S","C","H","E","M",
      "A"," ","="," ","t","c",".","T","A","B","L","E","_","S","C","H","E","M",
      "A"," ","A","N","D"," ","t","c",".","C","O","N","S","T","R","A","I","N",
      "T","_","T","Y","P","E"," ","="," ","'","P","R","I","M","A","R","Y"," ",
      "K","E","Y","'"," ","L","E","F","T"," ","J","O","I","N"," ","I","N","F",
      "O","R","M","A","T","I","O","N","_","S","C","H","E","M","A",".","K","E",
      "Y","_","C","O","L","U","M","N","_","U","S","A","G","E"," ","p","k"," ",
      "O","N"," ","c",".","C","O","L","U","M","N","_","N","A","M","E"," ","=",
      " ","p","k",".","C","O","L","U","M","N","_","N","A","M","E"," ","A","N",
      "D"," ","c",".","T","A","B","L","E","_","N","A","M","E"," ","="," ","p",
      "k",".","T","A","B","L","E","_","N","A","M","E"," ","A","N","D"," ","c",
      ".","T","A","B","L","E","_","S","C","H","E","M","A"," ","="," ","p","k",
      ".","T","A","B","L","E","_","S","C","H","E","M","A"," ","A","N","D"," ",
      "t","c",".","C","O","N","S","T","R","A","I","N","T","_","N","A","M","E",
      " ","="," ","p","k",".","C","O","N","S","T","R","A","I","N","T","_","N",
      "A","M","E"," ","L","E","F","T"," ","J","O","I","N"," ","I","N","F","O",
      "R","M","A","T","I","O","N","_","S","C","H","E","M","A",".","K","E","Y",
      "_","C","O","L","U","M","N","_","U","S","A","G","E"," ","f","k"," ","O",
      "N"," ","c",".","C","O","L","U","M","N","_","N","A","M","E"," ","="," ",
      "f","k",".","C","O","L","U","M","N","_","N","A","M","E"," ","A","N","D",
      " ","c",".","T","A","B","L","E","_","N","A","M","E"," ","="," ","f","k",
      ".","T","A","B","L","E","_","N","A","M","E"," ","A","N","D"," ","c",".",
      "T","A","B","L","E","_","S","C","H","E","M","A"," ","="," ","f","k",".",
      "T","A","B","L","E","_","S","C","H","E","M","A"," ","L","E","F","T"," ",
      "J","O","I","N"," ","I","N","F","O","R","M","A","T","I","O","N","_","S",
      "C","H","E","M","A",".","T","A","B","L","E","_","C","O","N","S","T","R",
      "A","I","N","T","S"," ","f","k","t","c"," ","O","N"," ","f","k",".","C",
      "O","N","S","T","R","A","I","N","T","_","N","A","M","E"," ","="," ","f",
      "k","t","c",".","C","O","N","S","T","R","A","I","N","T","_","N","A","M",
      "E"," ","A","N","D"," ","f","k","t","c",".","C","O","N","S","T","R","A",
      "I","N","T","_","T","Y","P","E"," ","="," ","'","F","O","R","E","I","G",
      "N"," ","K","E","Y","'"," ","W","H","E","R","E"," ","c",".","T","A","B",
      "L","E","_","N","A","M","E"," ","="," ",":","t","a","b","l","e","_","n",
      "a","m","e"," ","A","N","D"," ","c",".","T","A","B","L","E","_","S","C",
      "H","E","M","A"," ","="," ",":","s","c","h","e","m","a","_","n","a","m",
      "e"," ","O","R","D","E","R"," ","B","Y"," ","c",".","O","R","D","I","N",
      "A","L","_","P","O","S","I","T","I","O","N">>

SampleSelectTop ==
    <<"S","E","L","E","C","T"," ","T","O","P"," ","5"," ","*"," ","F","R","O",
      "M"," ","[","d","b","o","]",".","[">>

TCustomers ==
    <<"C","u","s","t","o","m","e","r","s">>

(***************************************************************************)
(* State.                                                                  *)
(***************************************************************************)
VARIABLES
    select_only_mode,   \* DatabaseManager._select_only_mode
    allow_mode_toggle,  \* Config.ALLOW_MODE_TOGGLE
    exec_count,         \* statements handed to conn.execute so far
    last,               \* the last completed operation and what it returned
    gen,                \* one run of _generate_sql_with_intelligent_retry
    thr,                \* per thread: the DatabaseManager call it is inside
    openai_api_key,     \* Config.OPENAI_API_KEY is set
    req                 \* the natural-language request being handled

vars ==
    <<select_only_mode, allow_mode_toggle, exec_count, last, gen, thr,
      openai_api_key, req>>

nl_vars == <<openai_api_key, req>>

db_vars == <<select_only_mode, allow_mode_toggle, exec_count, last>>

NoOp ==
    [op |-> "none", query |-> <<>>, enabled |-> FALSE, mode_before |-> FALSE,
     forwarded |-> FALSE, result |-> [success |-> TRUE]]

(***************************************************************************)
(* Generation retry controller (LanguageProcessor).                        *)
(***************************************************************************)
\* What one call of the Completion Service can do: reply with a text that
\* holds a statement, reply with a text that holds none, or raise.
ReplyKinds == {"sql", "no_sql", "exception"}

\* The stripped content of the reply to the call made at an attempt index.
RawText(kind, attempt_number) == <<"response", kind, attempt_number>>

\* str(exception) of the exception raised at an attempt index.
ExceptionText(attempt_number) == <<"exception", attempt_number>>

\* _extract_sql_from_ai_response on the reply: the statement, or None.
None == <<>>

ExtractedSql(kind, attempt_number) ==
    IF kind = "sql" THEN <<"statement", attempt_number>> ELSE None

MsgNoExtract == "Could not extract valid SQL from AI response"

MsgAllFailed == "All retry attempts failed. Last error: "

MsgMaxExceeded == "Maximum retry attempts exceeded"

\* The confidence of a success at an attempt index, in tenths.
ConfidenceTenths(attempt_number) == 9 - attempt_number

\* A final-attempt test that is off by one.
IsFinalAttemptOffByOne(attempt_number, max_retry_attempts) ==
    attempt_number = max_retry_attempts

IsFinalAttempt(attempt_number, max_retry_attempts) ==
    attempt_number = max_retry_attempts - 1

NoResult == [success |-> FALSE, error |-> <<"", None>>]

\* The loop body reporting, at the final attempt, what the first attempt
\* got.
AttemptBodyReportsFirst(attempt_number, max_retry_attempts, kind) ==
    IF kind = "exception"
    THEN IF IsFinalAttempt(attempt_number, max_retry_attempts)
         THEN [returns |-> TRUE, raises |-> FALSE,
               result |-> [success |-> FALSE,
                           error |-> <<MsgAllFailed, ExceptionText(0)>>]]
         ELSE [returns |-> FALSE, raises |-> FALSE, result |-> NoResult]
    ELSE IF ExtractedSql(kind, attempt_number) # None
    THEN [returns |-> TRUE, raises |-> FALSE,
          result |-> [success |-> TRUE,
                      sql_query |-> ExtractedSql(kind, attempt_number),
                      confidence |-> ConfidenceTenths(attempt_number),
                      attempt_number |-> attempt_number + 1]]
    ELSE IF IsFinalAttempt(attempt_number, max_retry_attempts)
    THEN [returns |-> TRUE, raises |-> FALSE,
          result |-> [success |-> FALSE, error |-> <<MsgNoExtract, None>>,
                      ai_response |-> RawText(kind, 0)]]
    ELSE [returns |-> FALSE, raises |-> FALSE, result |-> NoResult]

\* The loop body giving up at the first reply without a statement.
AttemptBodyNoRetryOnEmpty(attempt_number, max_retry_attempts, kind) ==
    IF kind = "exception"
    THEN IF IsFinalAttempt(attempt_number, max_retry_attempts)
         THEN [returns |-> TRUE, raises |-> FALSE,
               result |-> [success |-> FALSE,
                           error |-> <<MsgAllFailed,
                                       ExceptionText(attempt_number)>>]]
         ELSE [returns |-> FALSE, raises |-> FALSE, result |-> NoResult]
    ELSE IF ExtractedSql(kind, attempt_number) # None
    THEN [returns |-> TRUE, raises |-> FALSE,
          result |-> [success |-> TRUE,
                      sql_query |-> ExtractedSql(kind, attempt_number),
                      confidence |-> ConfidenceTenths(attempt_number),
                      attempt_number |-> attempt_number + 1]]
    ELSE [returns |-> TRUE, raises |-> FALSE,
          result |-> [success |-> FALSE, error |-> <<MsgNoExtract, None>>,
                      ai_response |-> RawText(kind, attempt_number)]]

\* The loop body returning a statement only when it is found at the last
\* attempt.
AttemptBodyKeepsGoing(attempt_number, max_retry_attempts, kind) ==
    IF kind = "exception"
    THEN IF IsFinalAttempt(attempt_number, max_retry_attempts)
         THEN [returns |-> TRUE, raises |-> FALSE,
               result |-> [success |-> FALSE,
                           error |-> <<MsgAllFailed,
                                       ExceptionText(attempt_number)>>]]
         ELSE [returns |-> FALSE, raises |-> FALSE, result |-> NoResult]
    ELSE IF ~IsFinalAttempt(attempt_number, max_retry_attempts)
    THEN [returns |-> FALSE, raises |-> FALSE, result |-> NoResult]
    ELSE IF ExtractedSql(kind, attempt_number) # None
    THEN [returns |-> TRUE, raises |-> FALSE,
          result |-> [success |-> TRUE,
                      sql_query |-> ExtractedSql(kind, attempt_number),
                      confidence |-> ConfidenceTenths(attempt_number),
                      attempt_number |-> attempt_number + 1]]
    ELSE [returns |-> TRUE, raises |-> FALSE,
          result |-> [success |-> FALSE, error |-> <<MsgNoExtract, None>>,
                      ai_response |-> RawText(kind, attempt_number)]]

\* The body of the loop for one attempt: whether the function returns,
\* whether an exception leaves it, and the value returned.
AttemptBody(attempt_number, max_retry_attempts, kind) ==
    IF kind = "exception"
    THEN IF IsFinalAttempt(attempt_number, max_retry_attempts)
         THEN [returns |-> TRUE, raises |-> FALSE,
               result |-> [success |-> FALSE,
                           error |-> <<MsgAllFailed,
                                       ExceptionText(attempt_number)>>]]
         ELSE [returns |-> FALSE, raises |-> FALSE, result |-> NoResult]
    ELSE IF ExtractedSql(kind, attempt_number) # None
    THEN [returns |-> TRUE, raises |-> FALSE,
          result |-> [success |-> TRUE,
                      sql_query |-> ExtractedSql(kind, attempt_number),
                      confidence |-> ConfidenceTenths(attempt_number),
                      attempt_number |-> attempt_number + 1]]
    ELSE IF IsFinalAttempt(attempt_number, max_retry_attempts)
    THEN [returns |-> TRUE, raises |-> FALSE,
          result |-> [success |-> FALSE, error |-> <<MsgNoExtract, None>>,
                      ai_response |-> RawText(kind, attempt_number)]]
    ELSE [returns |-> FALSE, raises |-> FALSE, result |-> NoResult]

NoGeneration ==
    [pc |-> "idle", max_retry_attempts |-> 0, attempt_number |-> 0,
     calls |-> 0, seen |-> {}, reply |-> "none", result |-> NoResult]

(***************************************************************************)
(* DatabaseManager shared by threads: a call advances from one access of   *)
(* self._select_only_mode to the next, and calls of other threads may run  *)
(* in between.                                                             *)
(***************************************************************************)
Threads == {"t1", "t2"}

\* Statements the threads submit.
ThreadQueries ==
    { QBlank, QSelectCustomers, QUpdateAccounts, QDropTable, QSelectThenDrop,
      QSelectUpdatedAt }

IdleThread ==
    [pc |-> "idle", query |-> <<>>, enabled |-> FALSE,
     mode_at_validate |-> FALSE, mode_at_guard |-> FALSE,
     previous_mode |-> FALSE, forwarded |-> FALSE,
     result |-> [success |-> TRUE]]

(***************************************************************************)
(* The natural-language request (server.process_natural_language_query     *)
(* and LanguageProcessor.convert_natural_language_to_sql): the handler      *)
(* advances from one call of the database or of the Completion Service to   *)
(* the next. A handler contains no await, so no other handler runs while    *)
(* a request is being handled.                                              *)
(***************************************************************************)
NlShow ==
    <<"s","h","o","w"," ","a","l","l"," ","c","u","s","t","o","m","e","r","s">>

NlRemove ==
    <<"R","e","m","o","v","e"," ","o","l","d"," ","o","r","d","e","r","s">>

NlTexts ==
    {
      \* "   "
      <<" "," "," ">>,
      NlShow,
      NlRemove,
      \* "Add or remove rows"
      <<"A","d","d"," ","o","r"," ","r","e","m","o","v","e"," ","r","o","w","s">>,
      \* "DROP or change rows"
      <<"D","R","O","P"," ","o","r"," ","c","h","a","n","g","e"," ","r","o","w","s">>
    }

\* max_retry_attempts as convert_natural_language_to_sql leaves it.
DefaultMaxRetryAttempts == 2

MsgNoApiKey == "OpenAI API key not configured for natural language processing"

NoExtraction == [matched |-> FALSE, sql |-> <<>>]

\* _extract_sql_from_ai_response on the stripped content of each reply.
ExtractionOf ==
    [reply \in Responses |-> ExtractSqlFromAiResponse(Strip(reply))]

IdleRequest ==
    [pc |-> "idle", natural_language_query |-> <<>>, events |-> <<>>,
     schema |-> NoSchema, query_type |-> "none", context |-> <<>>,
     reply |-> "none", content |-> <<>>, extraction |-> NoExtraction,
     conversion |-> NoResult, response |-> "none", error |-> NoError]

Init ==
    /\ select_only_mode \in BOOLEAN
    /\ allow_mode_toggle \in BOOLEAN
    /\ exec_count = 0
    /\ last = NoOp
    /\ gen = NoGeneration
    /\ thr = [t \in Threads |-> IdleThread]
    /\ openai_api_key = TRUE
    /\ req = IdleRequest

\* set_select_only_mode writing the mode before the permission check.
SetSelectOnlyModeWriteFirst(allowed, mode, enabled) ==
    IF ~allowed
    THEN [mode |-> enabled,
          result |-> [success |-> FALSE,
                      error |-> <<MsgToggleDisabled, NoKeyword>>]]
    ELSE [mode |-> enabled,
          result |-> [success |-> TRUE, previous_mode |-> mode,
                      current_mode |-> enabled]]

\* set_select_only_mode reading previous_mode after the write.
SetSelectOnlyModeReadAfterWrite(allowed, mode, enabled) ==
    IF ~allowed
    THEN [mode |-> mode,
          result |-> [success |-> FALSE,
                      error |-> <<MsgToggleDisabled, NoKeyword>>]]
    ELSE [mode |-> enabled,
          result |-> [success |-> TRUE, previous_mode |-> enabled,
                      current_mode |-> enabled]]

\* set_select_only_mode(enabled)
SetSelectOnlyModeResult(allowed, mode, enabled) ==
    IF ~allowed
    THEN [mode |-> mode,
          result |-> [success |-> FALSE,
                      error |-> <<MsgToggleDisabled, NoKeyword>>]]
    ELSE [mode |-> enabled,
          result |-> [success |-> TRUE, previous_mode |-> mode,
                      current_mode |-> enabled]]

SetSelectOnlyMode(enabled) ==
    LET r == SetSelectOnlyModeResult(allow_mode_toggle, select_only_mode,
                                     enabled)
    IN  /\ select_only_mode' = r.mode
        /\ last' = [op |-> "set", query |-> <<>>, enabled |-> enabled,
                    mode_before |-> select_only_mode, forwarded |-> FALSE,
                    result |-> r.result]
        /\ UNCHANGED <<allow_mode_toggle, exec_count, gen, thr, nl_vars>>

\* get_select_only_mode()
GetSelectOnlyModeResult(mode, allowed) ==
    [success |-> TRUE, select_only_mode |-> mode, can_toggle |-> allowed]

GetSelectOnlyMode ==
    /\ last' = [op |-> "get", query |-> <<>>, enabled |-> FALSE,
                mode_before |-> select_only_mode, forwarded |-> FALSE,
                result |-> GetSelectOnlyModeResult(select_only_mode,
                                                   allow_mode_toggle)]
    /\ UNCHANGED <<select_only_mode, allow_mode_toggle, exec_count, gen, thr,
                   nl_vars>>

\* execute_query(query), run without interruption.
ExecuteQuery(query) ==
    LET gate == ExecuteQueryGate(query, select_only_mode, select_only_mode)
    IN  \E db \in (IF gate.accepted THEN DbOutcomes ELSE {"ok"}) :
          LET r == ExecuteQueryRun(query, gate, db)
          IN  /\ r.forwarded => exec_count < MaxExec
              /\ exec_count' = IF r.forwarded THEN exec_count + 1
                               ELSE exec_count
              /\ \E fetched \in (IF r.result.kind = "data" THEN FetchedCounts
                                  ELSE {0}) :
                    last' = [op |-> "exec", query |-> query,
                             enabled |-> FALSE,
                             mode_before |-> select_only_mode,
                             forwarded |-> r.forwarded, fetched |-> fetched,
                             result |-> SelectResult(r.result, fetched)]
              /\ UNCHANGED <<select_only_mode, allow_mode_toggle, gen, thr,
                             nl_vars>>

\* process_direct_sql_query(arguments): strips the text, refuses an empty
\* one, otherwise calls execute_query once and renders its result.
ProcessDirectSqlQuery(text) ==
    LET sql_query == Strip(text)
        gate == ExecuteQueryGate(sql_query, select_only_mode,
                                 select_only_mode)
    IN  \E db \in (IF gate.accepted THEN DbOutcomes ELSE {"ok"}) :
          LET r == IF sql_query = <<>>
                   THEN [result |-> [success |-> FALSE,
                                     error |-> <<"SQL query is required",
                                                 NoKeyword>>,
                                     kind |-> "argument_error"],
                         forwarded |-> FALSE]
                   ELSE ExecuteQueryRun(sql_query, gate, db)
          IN  /\ r.forwarded => exec_count < MaxExec
              /\ exec_count' = IF r.forwarded THEN exec_count + 1
                               ELSE exec_count
              /\ \E fetched \in (IF r.result.kind = "data" THEN FetchedCounts
                                  ELSE {0}) :
                    last' = [op |-> "direct", query |-> sql_query,
                             enabled |-> FALSE,
                             mode_before |-> select_only_mode,
                             forwarded |-> r.forwarded, fetched |-> fetched,
                             result |-> SelectResult(r.result, fetched)]
              /\ UNCHANGED <<select_only_mode, allow_mode_toggle, gen, thr,
                             nl_vars>>

Next ==
    \/ \E enabled \in BOOLEAN : SetSelectOnlyMode(enabled)
    \/ GetSelectOnlyMode
    \/ \E query \in Queries : ExecuteQuery(query)
    \/ \E text \in Queries : ProcessDirectSqlQuery(text)

Spec == Init /\ [][Next]_vars

\* _generate_sql_with_intelligent_retry is entered.
GenerateSqlWithIntelligentRetry(max_retry_attempts) ==
    /\ gen.pc = "idle"
    /\ gen' = [NoGeneration EXCEPT !.pc = "loop",
                                   !.max_retry_attempts = max_retry_attempts]
    /\ UNCHANGED <<db_vars, thr, nl_vars>>

\* A loop that tests its bound only after the first iteration.
AttemptAtLeastOnce(kind) ==
    /\ gen.pc = "loop"
    /\ gen.attempt_number < gen.max_retry_attempts \/ gen.calls = 0
    /\ LET body == AttemptBody(gen.attempt_number, gen.max_retry_attempts,
                               kind)
       IN  gen' = [gen EXCEPT
                     !.calls = @ + 1,
                     !.seen = @ \cup {kind},
                     !.reply = kind,
                     !.pc = IF body.raises THEN "raised"
                            ELSE IF body.returns THEN "done" ELSE "loop",
                     !.attempt_number = IF body.returns \/ body.raises
                                        THEN @ ELSE @ + 1,
                     !.result = body.result]
    /\ UNCHANGED <<db_vars, thr, nl_vars>>

\* An iteration that does not advance the attempt index.
AttemptSameIndex(kind) ==
    /\ gen.pc = "loop"
    /\ gen.attempt_number < gen.max_retry_attempts
    /\ LET body == AttemptBody(gen.attempt_number, gen.max_retry_attempts,
                               kind)
       IN  gen' = [gen EXCEPT
                     !.calls = IF @ < gen.max_retry_attempts THEN @ + 1
                               ELSE @,
                     !.seen = @ \cup {kind},
                     !.reply = kind,
                     !.pc = IF body.raises THEN "raised"
                            ELSE IF body.returns THEN "done" ELSE "loop",
                     !.result = body.result]
    /\ UNCHANGED <<db_vars, thr, nl_vars>>

\* One iteration of the loop: the Completion Service is called and answers.
Attempt(kind) ==
    /\ gen.pc = "loop"
    /\ gen.attempt_number < gen.max_retry_attempts
    /\ LET body == AttemptBody(gen.attempt_number, gen.max_retry_attempts,
                               kind)
       IN  gen' = [gen EXCEPT
                     !.calls = @ + 1,
                     !.seen = @ \cup {kind},
                     !.reply = kind,
                     !.pc = IF body.raises THEN "raised"
                            ELSE IF body.returns THEN "done" ELSE "loop",
                     !.attempt_number = IF body.returns \/ body.raises
                                        THEN @ ELSE @ + 1,
                     !.result = body.result]
    /\ UNCHANGED <<db_vars, thr, nl_vars>>

\* range(max_retry_attempts) is exhausted: the statement after the loop.
LoopExit ==
    /\ gen.pc = "loop"
    /\ ~(gen.attempt_number < gen.max_retry_attempts)
    /\ gen' = [gen EXCEPT !.pc = "done",
                          !.result = [success |-> FALSE,
                                      error |-> <<MsgMaxExceeded, None>>]]
    /\ UNCHANGED <<db_vars, thr, nl_vars>>

\* The caller has taken the result; the next request may start.
GenerationReturned ==
    /\ gen.pc \in {"done", "raised"}
    /\ gen' = NoGeneration
    /\ UNCHANGED <<db_vars, thr, nl_vars>>

NextRetry ==
    \/ \E max_retry_attempts \in (-1)..MaxRetryAttempts :
          GenerateSqlWithIntelligentRetry(max_retry_attempts)
    \/ \E kind \in ReplyKinds : Attempt(kind)
    \/ LoopExit
    \/ GenerationReturned

SpecRetry == Init /\ [][NextRetry]_vars

\* Every call of the Completion Service returns and the loop goes on to its
\* next statement.
SpecRetryFair ==
    /\ SpecRetry
    /\ WF_vars(\E kind \in ReplyKinds : Attempt(kind))
    /\ WF_vars(LoopExit)

\* execute_query is entered: the empty-query test.
ExecCall(t, query) ==
    /\ thr[t].pc = "idle"
    /\ thr' = [thr EXCEPT ![t] =
                 IF IsEmptyQuery(query)
                 THEN [IdleThread EXCEPT
                         !.pc = "returned", !.query = query,
                         !.result = Rejected(MsgEmpty, NoKeyword).result]
                 ELSE [IdleThread EXCEPT !.pc = "validate", !.query = query]]
    /\ UNCHANGED <<db_vars, gen, nl_vars>>

\* _validate_query_for_select_only_mode reads the mode and decides.
ExecValidate(t) ==
    /\ thr[t].pc = "validate"
    /\ LET select_only_validation ==
               ValidateQueryForSelectOnlyMode(select_only_mode, thr[t].query)
       IN  thr' = [thr EXCEPT ![t] =
                     IF ~select_only_validation.is_valid
                     THEN [@ EXCEPT
                             !.pc = "returned",
                             !.mode_at_validate = select_only_mode,
                             !.result =
                                 Rejected(select_only_validation.message,
                                          select_only_validation.keyword
                                         ).result]
                     ELSE [@ EXCEPT !.pc = "guard",
                                    !.mode_at_validate = select_only_mode]]
    /\ UNCHANGED <<db_vars, gen, nl_vars>>

\* execute_query reads the mode again and runs the keyword guard.
ExecGuard(t) ==
    /\ thr[t].pc = "guard"
    /\ LET keyword == IF ~select_only_mode
                      THEN UnrestrictedGuard(thr[t].query) ELSE NoKeyword
       IN  thr' = [thr EXCEPT ![t] =
                     IF keyword # NoKeyword
                     THEN [@ EXCEPT
                             !.pc = "returned",
                             !.mode_at_guard = select_only_mode,
                             !.result = Rejected(MsgDangerous, keyword).result]
                     ELSE [@ EXCEPT !.pc = "connect",
                                    !.mode_at_guard = select_only_mode]]
    /\ UNCHANGED <<db_vars, gen, nl_vars>>

\* The statement is handed to the connection.
ExecForward(t, db) ==
    /\ thr[t].pc = "connect"
    /\ exec_count < MaxExec
    /\ exec_count' = exec_count + 1
    /\ LET r == Forward(thr[t].query, db)
       IN  \E fetched \in (IF r.result.kind = "data" THEN FetchedCounts
                           ELSE {0}) :
             thr' = [thr EXCEPT ![t] =
                       [@ EXCEPT !.pc = "returned", !.forwarded = TRUE,
                                 !.result = SelectResult(r.result, fetched)]]
    /\ UNCHANGED <<select_only_mode, allow_mode_toggle, last, gen, nl_vars>>

\* set_select_only_mode is entered: the permission test.
SetCall(t, enabled) ==
    /\ thr[t].pc = "idle"
    /\ thr' = [thr EXCEPT ![t] =
                 IF ~allow_mode_toggle
                 THEN [IdleThread EXCEPT
                         !.pc = "returned", !.enabled = enabled,
                         !.result = [success |-> FALSE,
                                     error |-> <<MsgToggleDisabled,
                                                 NoKeyword>>]]
                 ELSE [IdleThread EXCEPT !.pc = "set_read",
                                         !.enabled = enabled]]
    /\ UNCHANGED <<db_vars, gen, nl_vars>>

\* previous_mode = self._select_only_mode
SetRead(t) ==
    /\ thr[t].pc = "set_read"
    /\ thr' = [thr EXCEPT ![t] = [@ EXCEPT !.pc = "set_write",
                                           !.previous_mode = select_only_mode]]
    /\ UNCHANGED <<db_vars, gen, nl_vars>>

\* self._select_only_mode = enabled, and the return.
SetWrite(t) ==
    /\ thr[t].pc = "set_write"
    /\ select_only_mode' = thr[t].enabled
    /\ thr' = [thr EXCEPT ![t] =
                 [@ EXCEPT !.pc = "returned",
                           !.result = [success |-> TRUE,
                                       previous_mode |-> thr[t].previous_mode,
                                       current_mode |-> thr[t].enabled]]]
    /\ UNCHANGED <<allow_mode_toggle, exec_count, last, gen, nl_vars>>

\* The caller has taken the result.
ThreadReturn(t) ==
    /\ thr[t].pc = "returned"
    /\ thr' = [thr EXCEPT ![t] = IdleThread]
    /\ UNCHANGED <<db_vars, gen, nl_vars>>

NextConc ==
    \/ \E t \in Threads, query \in ThreadQueries : ExecCall(t, query)
    \/ \E t \in Threads : ExecValidate(t)
    \/ \E t \in Threads : ExecGuard(t)
    \/ \E t \in Threads, db \in DbOutcomes : ExecForward(t, db)
    \/ \E t \in Threads, enabled \in BOOLEAN : SetCall(t, enabled)
    \/ \E t \in Threads : SetRead(t)
    \/ \E t \in Threads : SetWrite(t)
    \/ \E t \in Threads : ThreadReturn(t)

SpecConc == Init /\ [][NextConc]_vars

(***************************************************************************)
(* Schema and sample-data retrieval as operations of the DatabaseManager.  *)
(***************************************************************************)
\* execute_query on the table-list statement, per mode and db outcome.
ListTablesRun ==
    [mode \in BOOLEAN, db \in DbOutcomes |->
        ExecuteQueryRun(QListTables,
                        ExecuteQueryGate(QListTables, mode, mode), db)]

\* execute_query on the column statement, per mode and db outcome.
TableColumnsRun ==
    [mode \in BOOLEAN, db \in DbOutcomes |->
        ExecuteQueryRun(QTableColumns,
                        ExecuteQueryGate(QTableColumns, mode, mode), db)]

\* A table listing that lifts SELECT-only mode for its own statement and
\* does not restore it.
GetTableSchemaLiftsMode(db) ==
    LET r == ListTablesRun[FALSE, db]
    IN  /\ r.forwarded => exec_count < MaxExec
        /\ exec_count' = IF r.forwarded THEN exec_count + 1 ELSE exec_count
        /\ select_only_mode' = FALSE
        /\ last' = [op |-> "schema", query |-> QListTables,
                    enabled |-> FALSE, mode_before |-> select_only_mode,
                    forwarded |-> r.forwarded, result |-> r.result]
        /\ UNCHANGED <<allow_mode_toggle, gen, thr, nl_vars>>

\* get_table_schema(): the table list.
GetTableSchema(db) ==
    LET r == ListTablesRun[select_only_mode, db]
    IN  /\ r.forwarded => exec_count < MaxExec
        /\ exec_count' = IF r.forwarded THEN exec_count + 1 ELSE exec_count
        /\ last' = [op |-> "schema", query |-> QListTables,
                    enabled |-> FALSE, mode_before |-> select_only_mode,
                    forwarded |-> r.forwarded, result |-> r.result]
        /\ UNCHANGED <<select_only_mode, allow_mode_toggle, gen, thr,
                       nl_vars>>

\* get_table_schema(table_name): the columns of one table.
GetTableColumns(db) ==
    LET r == TableColumnsRun[select_only_mode, db]
    IN  /\ r.forwarded => exec_count < MaxExec
        /\ exec_count' = IF r.forwarded THEN exec_count + 1 ELSE exec_count
        /\ last' = [op |-> "columns", query |-> QTableColumns,
                    enabled |-> FALSE, mode_before |-> select_only_mode,
                    forwarded |-> r.forwarded, result |-> r.result]
        /\ UNCHANGED <<select_only_mode, allow_mode_toggle, gen, thr,
                       nl_vars>>

\* str.isalnum()
IsAlnum(s) ==
    /\ s # <<>>
    /\ \A i \in 1..Len(s) :
          s[i] \in DOMAIN UpperMap \/ s[i] \in DOMAIN LowerMap
              \/ s[i] \in Digits

\* Table names handed to get_sample_data.
SampleTables ==
    { <<>>, TCustomers,
      \* "order_updates"
      <<"o","r","d","e","r","_","u","p","d","a","t","e","s">>,
      \* "a;b"
      <<"a",";","b">> }

\* f"SELECT TOP {limit} * FROM [{schema_name}].[{table_name}]"
SampleQuery(table_name) == SampleSelectTop \o table_name \o <<"]">>

\* get_sample_data(table_name) with the default limit and schema.
GetSampleData(table_name) ==
    LET query == SampleQuery(table_name)
        gate == ExecuteQueryGate(query, select_only_mode, select_only_mode)
        checked == IF Strip(table_name) = <<>> THEN "Table name is required"
                   ELSE IF ~IsAlnum(SelectSeq(table_name,
                                            LAMBDA c : c \notin {"_", "-"}))
                   THEN "Invalid table name format"
                   ELSE ""
    IN  \E db \in (IF checked = "" /\ gate.accepted
                   THEN DbOutcomes ELSE {"ok"}) :
          LET r == IF checked # ""
                   THEN [result |-> [success |-> FALSE,
                                     error |-> <<checked, NoKeyword>>,
                                     kind |-> "argument_error"],
                         forwarded |-> FALSE]
                   ELSE ExecuteQueryRun(query, gate, db)
          IN  /\ r.forwarded => exec_count < MaxExec
              /\ exec_count' = IF r.forwarded THEN exec_count + 1
                               ELSE exec_count
              /\ last' = [op |-> "sample", query |-> query,
                          enabled |-> FALSE,
                          mode_before |-> select_only_mode,
                          forwarded |-> r.forwarded, result |-> r.result]
              /\ UNCHANGED <<select_only_mode, allow_mode_toggle, gen, thr,
                             nl_vars>>

(***************************************************************************)
(* The natural-language request, step by step.                             *)
(***************************************************************************)
\* process_natural_language_query is entered: the text is stripped and an
\* empty one refused.
ProcessNaturalLanguageQuery(text) ==
    /\ req.pc = "idle"
    /\ req' = IF Strip(text) = <<>>
              THEN [IdleRequest EXCEPT !.pc = "returned",
                                       !.response = "argument_error"]
              ELSE [IdleRequest EXCEPT !.pc = "schema",
                                       !.natural_language_query = Strip(text)]
    /\ UNCHANGED <<db_vars, gen, thr, openai_api_key>>

\* table_details as the server fills it: for each of the first ten tables
\* whose column query succeeded, the qualified name and then the bare name.
RECURSIVE TableDetailKeys(_, _, _)
TableDetailKeys(tables, succeeded, i) ==
    IF i > Len(tables) \/ i > 10 THEN <<>>
    ELSE (IF i \in succeeded
          THEN <<<<"d","b","o",".">> \o tables[i], tables[i]>> ELSE <<>>)
         \o TableDetailKeys(tables, succeeded, i + 1)

\* The rows of the column query for a table: their keys are the column
\* names the statement selects, and NULL is <<>>.
ColumnRows ==
    <<[COLUMN_NAME |-> "id", DATA_TYPE |-> "int",
       CHARACTER_MAXIMUM_LENGTH |-> <<>>,
       IS_PRIMARY_KEY |-> 1, IS_FOREIGN_KEY |-> 0],
      [COLUMN_NAME |-> "name", DATA_TYPE |-> "nvarchar",
       CHARACTER_MAXIMUM_LENGTH |-> <<"5","0">>,
       IS_PRIMARY_KEY |-> 0, IS_FOREIGN_KEY |-> 0]>>

\* A handler that goes on to the conversion when the schema could not be
\* retrieved.
RetrieveSchemaIgnoresFailure(db, tables, succeeded) ==
    LET r == ListTablesRun[select_only_mode, db]
        listed == IF r.result.success THEN tables ELSE <<>>
        detailed == Len(Take(listed, 10))
        forwards == (IF r.forwarded THEN 1 ELSE 0) + detailed
    IN  /\ req.pc = "schema"
        /\ succeeded \subseteq 1..detailed
        /\ ~r.result.success => tables = <<>> /\ succeeded = {}
        /\ exec_count + forwards <= MaxExec
        /\ exec_count' = exec_count + forwards
        /\ last' = [op |-> IF detailed > 0 THEN "columns" ELSE "schema",
                    query |-> IF detailed > 0 THEN QTableColumns
                              ELSE QListTables,
                    enabled |-> FALSE, mode_before |-> select_only_mode,
                    forwarded |-> r.forwarded,
                    result |-> IF detailed > 0 /\ detailed \notin succeeded
                               THEN TableColumnsRun[select_only_mode,
                                                    "sqlerror"].result
                               ELSE IF detailed > 0
                               THEN TableColumnsRun[select_only_mode,
                                                    "ok"].result
                               ELSE r.result]
        /\ req' = IF ~r.result.success
                  THEN [req EXCEPT !.pc = "convert",
                                   !.events = Append(@, "schema")]
                  ELSE [req EXCEPT
                          !.pc = "convert",
                          !.events = Append(@, "schema"),
                          !.schema =
                              [success |-> TRUE, tables |-> listed,
                               has_table_details |-> listed # <<>>,
                               table_details |->
                                   TableDetailKeys(listed, succeeded, 1),
                               column_details |->
                                   [i \in 1..(2 * Cardinality(succeeded)) |->
                                       ColumnRows],
                               has_relationships |-> FALSE,
                               relationships |-> <<>>]]
        /\ UNCHANGED <<select_only_mode, allow_mode_toggle, gen, thr,
                       openai_api_key>>

\* database_manager.get_table_schema() and, when it lists tables, one
\* get_table_schema(table_name) for each of the first ten.
RetrieveSchema(db, tables, succeeded) ==
    LET r == ListTablesRun[select_only_mode, db]
        listed == IF r.result.success THEN tables ELSE <<>>
        detailed == Len(Take(listed, 10))
        forwards == (IF r.forwarded THEN 1 ELSE 0) + detailed
    IN  /\ req.pc = "schema"
        /\ succeeded \subseteq 1..detailed
        /\ ~r.result.success => tables = <<>> /\ succeeded = {}
        /\ exec_count + forwards <= MaxExec
        /\ exec_count' = exec_count + forwards
        /\ last' = [op |-> IF detailed > 0 THEN "columns" ELSE "schema",
                    query |-> IF detailed > 0 THEN QTableColumns
                              ELSE QListTables,
                    enabled |-> FALSE, mode_before |-> select_only_mode,
                    forwarded |-> r.forwarded,
                    result |-> IF detailed > 0 /\ detailed \notin succeeded
                               THEN TableColumnsRun[select_only_mode,
                                                    "sqlerror"].result
                               ELSE IF detailed > 0
                               THEN TableColumnsRun[select_only_mode,
                                                    "ok"].result
                               ELSE r.result]
        /\ req' = IF ~r.result.success
                  THEN [req EXCEPT !.pc = "returned",
                                   !.events = Append(@, "schema"),
                                   !.response = "schema_error"]
                  ELSE [req EXCEPT
                          !.pc = "convert",
                          !.events = Append(@, "schema"),
                          !.schema =
                              [success |-> TRUE, tables |-> listed,
                               has_table_details |-> listed # <<>>,
                               table_details |->
                                   TableDetailKeys(listed, succeeded, 1),
                               column_details |->
                                   [i \in 1..(2 * Cardinality(succeeded)) |->
                                       ColumnRows],
                               has_relationships |-> FALSE,
                               relationships |-> <<>>]]
        /\ UNCHANGED <<select_only_mode, allow_mode_toggle, gen, thr,
                       openai_api_key>>

\* The start of the conversion that does not look at the API key.
ConversionStartWithoutKeyCheck(api_key, natural_language_query, schema) ==
    LET query_analysis_result ==
            AnalyzeNaturalLanguageIntent(natural_language_query)
    IN  [proceeds |-> TRUE,
         events |-> <<"convert", "intent", "context">>,
         query_type |-> query_analysis_result.query_type,
         context |-> BuildComprehensiveSchemaContext(
                         schema, query_analysis_result),
         result |-> NoResult]

\* convert_natural_language_to_sql up to the call of the retry controller.
ConversionStart(api_key, natural_language_query, schema) ==
    LET query_analysis_result ==
            AnalyzeNaturalLanguageIntent(natural_language_query)
    IN  IF ~api_key
        THEN [proceeds |-> FALSE, events |-> <<"convert">>,
              query_type |-> "none", context |-> <<>>,
              result |-> [success |-> FALSE, error |-> <<MsgNoApiKey, None>>]]
        ELSE [proceeds |-> TRUE,
              events |-> <<"convert", "intent", "context">>,
              query_type |-> query_analysis_result.query_type,
              context |-> BuildComprehensiveSchemaContext(
                         schema, query_analysis_result),
              result |-> NoResult]

\* language_processor.convert_natural_language_to_sql is called.
ConvertNaturalLanguageToSql ==
    LET start == ConversionStart(openai_api_key, req.natural_language_query,
                                 req.schema)
    IN  /\ req.pc = "convert"
        /\ req' = [req EXCEPT
                     !.pc = IF start.proceeds THEN "generate" ELSE "returned",
                     !.events = @ \o start.events,
                     !.query_type = start.query_type,
                     !.context = start.context,
                     !.conversion = start.result,
                     !.response = IF start.proceeds THEN @
                                  ELSE "conversion_error"]
        /\ gen' = IF start.proceeds
                  THEN [NoGeneration EXCEPT
                          !.pc = "loop",
                          !.max_retry_attempts = DefaultMaxRetryAttempts]
                  ELSE gen
        /\ UNCHANGED <<db_vars, thr, openai_api_key>>

\* One iteration of the retry loop inside a request; kind tells what the
\* Completion Service did, content and extraction what it replied.
RequestAttempt(kind, content, extraction) ==
    LET body == AttemptBody(gen.attempt_number, gen.max_retry_attempts, kind)
        result == IF body.result.success
                  THEN [body.result EXCEPT !.sql_query = extraction.sql]
                  ELSE IF "ai_response" \in DOMAIN body.result
                  THEN [body.result EXCEPT !.ai_response = content]
                  ELSE body.result
    IN  /\ req.pc = "generate"
        /\ gen.pc = "loop"
        /\ gen.attempt_number < gen.max_retry_attempts
        /\ gen' = [gen EXCEPT
                     !.calls = @ + 1,
                     !.seen = @ \cup {kind},
                     !.reply = kind,
                     !.pc = IF body.raises THEN "raised"
                            ELSE IF body.returns THEN "done" ELSE "loop",
                     !.attempt_number = IF body.returns \/ body.raises
                                        THEN @ ELSE @ + 1,
                     !.result = result]
        /\ req' = [req EXCEPT !.events = Append(@, "call"),
                              !.reply = kind,
                              !.content = content,
                              !.extraction = extraction]
        /\ UNCHANGED <<db_vars, thr, openai_api_key>>

\* The Completion Service replies with a text.
CompletionReplies(reply) ==
    LET extraction == ExtractionOf[reply]
    IN  RequestAttempt(IF extraction.matched /\ extraction.sql # <<>>
                       THEN "sql" ELSE "no_sql",
                       Strip(reply), extraction)

\* The call of the Completion Service raises.
CompletionRaises == RequestAttempt("exception", <<>>, NoExtraction)

\* convert_natural_language_to_sql after the retry controller returned: the
\* advisory validation of a generated statement, and the result.
ConversionReturns ==
    LET sql_generation_result == gen.result
        sql_validation_result ==
            ValidateAndOptimizeGeneratedSql(sql_generation_result.sql_query,
                                            req.schema)
    IN  /\ req.pc = "generate"
        /\ gen.pc = "done"
        /\ req' = IF sql_generation_result.success
                  THEN [req EXCEPT
                          !.pc = "execute",
                          !.events = Append(@, "advisory"),
                          !.conversion =
                              [success |-> TRUE,
                               sql_query |-> sql_validation_result.query,
                               query_type |-> req.query_type,
                               confidence_score |->
                                   sql_generation_result.confidence,
                               warnings |-> sql_validation_result.warnings]]
                  ELSE [req EXCEPT !.pc = "returned",
                                   !.conversion = sql_generation_result,
                                   !.response = "conversion_error"]
        /\ UNCHANGED <<db_vars, gen, thr, openai_api_key>>

\* A handler that converts again when the execution failed.
ExecuteGeneratedRetries ==
    /\ req.pc = "execute"
    /\ LET query == req.conversion.sql_query
           gate == ExecuteQueryGate(query, select_only_mode,
                                    select_only_mode)
       IN  \E db \in (IF gate.accepted THEN DbOutcomes ELSE {"ok"}) :
             LET r == ExecuteQueryRun(query, gate, db)
             IN  /\ r.forwarded => exec_count < MaxExec
                 /\ exec_count' = IF r.forwarded THEN exec_count + 1
                                  ELSE exec_count
                 /\ \E fetched \in (IF r.result.kind = "data"
                                     THEN FetchedCounts ELSE {0}) :
                       last' = [op |-> "exec", query |-> query,
                                enabled |-> FALSE,
                                mode_before |-> select_only_mode,
                                forwarded |-> r.forwarded,
                                fetched |-> fetched,
                                result |-> SelectResult(r.result, fetched)]
                 /\ req' = [req EXCEPT
                              !.pc = IF r.result.success THEN "returned"
                                     ELSE "generate",
                              !.events =
                                  @ \o <<IF gate.accepted
                                         THEN "gate_accepted"
                                         ELSE "gate_rejected">>
                                    \o (IF r.forwarded THEN <<"execute">>
                                        ELSE <<>>),
                              !.response = "report",
                              !.error = r.result.error]
    /\ UNCHANGED <<select_only_mode, allow_mode_toggle, gen, thr,
                   openai_api_key>>

\* database_manager.execute_query(generated_sql_query) and the report.
ExecuteGenerated ==
    /\ req.pc = "execute"
    /\ LET query == req.conversion.sql_query
           gate == ExecuteQueryGate(query, select_only_mode,
                                    select_only_mode)
       IN  \E db \in (IF gate.accepted THEN DbOutcomes ELSE {"ok"}) :
             LET r == ExecuteQueryRun(query, gate, db)
             IN  /\ r.forwarded => exec_count < MaxExec
                 /\ exec_count' = IF r.forwarded THEN exec_count + 1
                                  ELSE exec_count
                 /\ \E fetched \in (IF r.result.kind = "data"
                                     THEN FetchedCounts ELSE {0}) :
                       last' = [op |-> "exec", query |-> query,
                                enabled |-> FALSE,
                                mode_before |-> select_only_mode,
                                forwarded |-> r.forwarded,
                                fetched |-> fetched,
                                result |-> SelectResult(r.result, fetched)]
                 /\ req' = [req EXCEPT
                              !.pc = "returned",
                              !.events =
                                  @ \o <<IF gate.accepted
                                         THEN "gate_accepted"
                                         ELSE "gate_rejected">>
                                    \o (IF r.forwarded THEN <<"execute">>
                                        ELSE <<>>),
                              !.response = "report",
                              !.error = r.result.error]
    /\ UNCHANGED <<select_only_mode, allow_mode_toggle, gen, thr,
                   openai_api_key>>

\* The handler has returned its text.
RequestReturns ==
    /\ req.pc = "returned"
    /\ req' = IdleRequest
    /\ gen' = NoGeneration
    /\ UNCHANGED <<db_vars, thr, openai_api_key>>

NextRequest ==
    \/ \E text \in NlTexts : ProcessNaturalLanguageQuery(text)
    \/ \E db \in DbOutcomes, tables \in {<<>>, <<TCustomers>>},
          succeeded \in SUBSET {1} : RetrieveSchema(db, tables, succeeded)
    \/ ConvertNaturalLanguageToSql
    \/ \E reply \in Responses : CompletionReplies(reply)
    \/ CompletionRaises
    \/ ConversionReturns
    \/ ExecuteGenerated
    \/ RequestReturns
    \/ req.pc = "idle" /\ \E enabled \in BOOLEAN : SetSelectOnlyMode(enabled)
    \/ req.pc = "idle" /\ GetSelectOnlyMode
    \/ req.pc = "idle"
          /\ \E query \in {<<>>, QBlank, QSelectCustomers, QDropTable} :
                ExecuteQuery(query)
    \/ req.pc = "idle"
          /\ \E text \in {QBlank, QSelectCustomers, QDropTable} :
                ProcessDirectSqlQuery(text)
    \/ req.pc = "idle" /\ \E db \in DbOutcomes : GetTableSchema(db)
    \/ req.pc = "idle" /\ \E db \in DbOutcomes : GetTableColumns(db)
    \/ req.pc = "idle" /\ \E name \in SampleTables : GetSampleData(name)

InitRequest ==
    /\ select_only_mode \in BOOLEAN
    /\ allow_mode_toggle \in BOOLEAN
    /\ exec_count = 0
    /\ last = NoOp
    /\ gen = NoGeneration
    /\ thr = [t \in Threads |-> IdleThread]
    /\ openai_api_key \in BOOLEAN
    /\ req = IdleRequest

SpecRequest == InitRequest /\ [][NextRequest]_vars

(***************************************************************************)
(* The schema context builder applied to table lists of every length.      *)
(***************************************************************************)
\* The name of the table numbered i.
TableName(i) == <<"T", DigitSeq[(i \div 10) + 1], DigitSeq[(i % 10) + 1]>>

\* A table list of n tables as the database may list them.
Snapshot(n, order) ==
    [i \in 1..n |->
        TableName(IF order = "ascending" THEN i
                  ELSE IF order = "descending" THEN n + 1 - i
                  ELSE ((i + 2) % n) + 1)]

\* _build_comprehensive_schema_context is applied to a snapshot of n
\* tables; detailed tells whether it has a detailed-column map, with an
\* entry for each table, and relationships < 0 that it has no relationships.
\* Each table has key_columns key columns and then data_columns others.
BuildContext(n, order, text, detailed, key_columns, data_columns, relationships) ==
    LET ColumnDescriptors ==
            [i \in 1..(key_columns + data_columns) |->
                [COLUMN_NAME |-> <<"C">> \o TableName(i), DATA_TYPE |-> "int",
                 is_primary_key |-> IF i <= key_columns THEN 1 ELSE 0,
                 is_foreign_key |-> 0]]
        Relationships ==
            [i \in 1..relationships |->
                [from_table |-> TableName(i), from_column |-> "id",
                 to_table |-> TableName(i + 1), to_column |-> "id"]]
        database_schema_information ==
            [success |-> TRUE, tables |-> Snapshot(n, order),
             has_table_details |-> detailed,
             table_details |-> IF detailed THEN Snapshot(n, order) ELSE <<>>,
             column_details |->
                 IF detailed
                 THEN [i \in 1..n |-> ColumnDescriptors]
                 ELSE <<>>,
             has_relationships |-> relationships >= 0,
             relationships |-> IF relationships >= 0
                               THEN Relationships ELSE <<>>]
        query_analysis_result == AnalyzeNaturalLanguageIntent(text)
    IN  /\ req.pc = "idle"
        /\ req' = [IdleRequest EXCEPT
                     !.pc = "context",
                     !.natural_language_query = text,
                     !.schema = database_schema_information,
                     !.query_type = query_analysis_result.query_type,
                     !.context = BuildComprehensiveSchemaContext(
                                     database_schema_information,
                                     query_analysis_result)]
        /\ UNCHANGED <<db_vars, gen, thr, openai_api_key>>

\* The context has been handed to the prompt composer.
ContextReturns ==
    /\ req.pc = "context"
    /\ req' = IdleRequest
    /\ UNCHANGED <<db_vars, gen, thr, openai_api_key>>

NextContext ==
    \/ \E n \in 0..MaxTables, order \in {"ascending", "descending", "rotated"},
          text \in {NlShow, NlRemove}, detailed \in BOOLEAN,
          key_columns \in {0, MaxKeyColumns},
          data_columns \in {0, MaxDataColumns},
          relationships \in {-1, MaxRelationships} :
             BuildContext(n, order, text, detailed, key_columns,
                          data_columns, relationships)
    \/ ContextReturns

SpecContext == Init /\ [][NextContext]_vars

(***************************************************************************)
(* Properties of the safety gate and the mode state.                       *)
(***************************************************************************)
IsExecution == last.op \in {"exec", "direct"}

LeadsWithSelect(query) == StartsWith(Upper(Strip(query)), KwSELECT)

DenyListTokens ==
    {KwDROP, KwTRUNCATE, KwDELETE, KwUPDATE, KwINSERT, KwALTER, KwCREATE}

BlockedTokens == {KwDROP, KwTRUNCATE, KwDELETEFROM, KwALTER, KwCREATE}

\* C1: in SELECT-only mode a statement that, trimmed and upper-cased, does
\* not begin with SELECT is rejected: it fails, it is not forwarded to the
\* connection, and unless it is blank the reason is the SELECT-only message.
C1_NonSelectRejected ==
    (IsExecution /\ last.mode_before /\ ~LeadsWithSelect(last.query))
        => /\ ~last.result.success
           /\ ~last.forwarded
           /\ ~IsEmptyQuery(last.query)
                  => last.result.error = <<MsgOnlySelect, NoKeyword>>

C1_Witness ==
    /\ last.op = "exec"
    /\ last.mode_before
    /\ last.query = QWith
    /\ last.result.error = <<MsgOnlySelect, NoKeyword>>

\* C2: in SELECT-only mode a statement whose upper-cased text contains a
\* deny-list token anywhere is rejected, whatever its leading token.
C2_DenyListRejected ==
    (/\ IsExecution
     /\ last.mode_before
     /\ \E token \in DenyListTokens : Contains(Upper(last.query), token))
        => ~last.result.success /\ ~last.forwarded

C2_Witness ==
    /\ last.op = "exec"
    /\ last.mode_before
    /\ last.query = QSelectUpdatedAt
    /\ last.result.error = <<MsgForbidden, KwUPDATE>>

\* C3: a statement the safety gate rejects is not forwarded to the
\* connection: the call fails with a reason, no execution is made for it
\* (neither once nor again), and DELETE FROM Orders in SELECT-only mode is
\* refused with the SELECT-only message.
C3_RejectedNeverForwarded ==
    [][(/\ last'.op \in {"exec", "direct"}
        /\ ~IsEmptyQuery(last'.query)
        /\ ~ExecuteQueryGate(last'.query, select_only_mode,
                             select_only_mode).accepted)
          => /\ ~last'.result.success
             /\ ~last'.forwarded
             /\ exec_count' = exec_count
             /\ last'.result.error[1] # ""
             /\ (select_only_mode /\ last'.query = QDeleteFromOrders)
                    => last'.result.error = <<MsgOnlySelect, NoKeyword>>]_vars

C3_Witness ==
    /\ last.op = "direct"
    /\ last.mode_before
    /\ last.query = QDeleteFromOrders
    /\ ~last.result.success
    /\ ~last.forwarded
    /\ exec_count = 0

\* C4: in unrestricted mode a non-blank statement is rejected exactly when
\* its upper-cased text contains DROP, TRUNCATE, DELETE FROM, ALTER or
\* CREATE and it does not lead with SELECT; every other one is forwarded.
C4_UnrestrictedDecision ==
    (IsExecution /\ ~last.mode_before /\ ~IsEmptyQuery(last.query))
        => (last.forwarded <=>
              ~(/\ \E token \in BlockedTokens :
                       Contains(Upper(last.query), token)
                /\ ~LeadsWithSelect(last.query)))

C4_Witness ==
    /\ last.op = "exec"
    /\ ~last.mode_before
    /\ last.query = QUpdateAccounts
    /\ last.forwarded
    /\ last.result.success

\* C5: with the toggle disallowed, set_select_only_mode fails for either
\* argument and the mode never changes, so get_select_only_mode keeps
\* reporting the mode held before the calls.
C5_ToggleDisallowed ==
    [][~allow_mode_toggle
          => /\ select_only_mode' = select_only_mode
             /\ last'.op = "set" => ~last'.result.success
             /\ last'.op = "get"
                    => last'.result.select_only_mode = select_only_mode]_vars

C5_Witness ==
    /\ ~allow_mode_toggle
    /\ last.op = "set"
    /\ last.enabled # last.mode_before
    /\ ~last.result.success
    /\ select_only_mode = last.mode_before

\* C6: with the toggle allowed, set_select_only_mode(x) succeeds with
\* previous_mode the mode held just before the call and current_mode x, and
\* a get_select_only_mode that follows reports x.
C6_ToggleAllowed ==
    [][allow_mode_toggle
          => /\ last'.op = "set"
                    => /\ last'.result.success
                       /\ last'.result.previous_mode = select_only_mode
                       /\ last'.result.current_mode = last'.enabled
                       /\ select_only_mode' = last'.enabled
             /\ (last.op = "set" /\ last'.op = "get")
                    => last'.result.select_only_mode = last.enabled]_vars

C6_Witness ==
    /\ allow_mode_toggle
    /\ last.op = "set"
    /\ last.result.success
    /\ last.result.previous_mode # last.result.current_mode
    /\ select_only_mode = last.enabled

(***************************************************************************)
(* Properties of the generation retry controller.                          *)
(***************************************************************************)
ClampedConfidenceTenths(i) == IF 9 - i > 0 THEN 9 - i ELSE 0

\* C8: a success returned at attempt index i carries confidence
\* max(0, 0.9 - 0.1*i), in tenths max(0, 9 - i), and is never negative.
C8_ConfidenceClamped ==
    (gen.pc = "done" /\ gen.result.success)
        => /\ gen.result.confidence
                 = ClampedConfidenceTenths(gen.attempt_number)
           /\ gen.result.confidence >= 0

\* C9: when every one of max >= 1 attempts gets a reply without a
\* statement, exactly max calls are made and the failure carries the raw
\* text of the final attempt.
C9_AllEmptyCarriesFinalRawText ==
    (gen.pc = "done" /\ gen.max_retry_attempts >= 1 /\ gen.seen = {"no_sql"})
        => /\ gen.calls = gen.max_retry_attempts
           /\ ~gen.result.success
           /\ gen.result.error = <<MsgNoExtract, None>>
           /\ gen.result.ai_response
                 = RawText("no_sql", gen.max_retry_attempts - 1)

C9_Witness ==
    /\ gen.pc = "done"
    /\ gen.max_retry_attempts = 2
    /\ gen.seen = {"no_sql"}
    /\ gen.calls = 2
    /\ gen.result.ai_response = RawText("no_sql", 1)

\* C10: an exception of the Completion Service at a non-final attempt is
\* swallowed and the next attempt index follows; at the final attempt the
\* controller returns a failure carrying that exception's text; the
\* exception never leaves the controller.
C10_ExceptionSwallowedOrReported ==
    [][(gen.pc = "loop" /\ gen'.calls = gen.calls + 1
            /\ gen'.reply = "exception")
          => IF gen.attempt_number < gen.max_retry_attempts - 1
             THEN /\ gen'.pc = "loop"
                  /\ gen'.attempt_number = gen.attempt_number + 1
             ELSE /\ gen'.pc = "done"
                  /\ ~gen'.result.success
                  /\ gen'.result.error
                        = <<MsgAllFailed, ExceptionText(gen.attempt_number)>>
       ]_vars

C10_Witness ==
    /\ gen.pc = "done"
    /\ gen.max_retry_attempts = 3
    /\ gen.seen = {"exception"}
    /\ gen.calls = 3
    /\ gen.result.error = <<MsgAllFailed, ExceptionText(2)>>

(***************************************************************************)
(* Properties of the shared mode state under interleaving.                 *)
(***************************************************************************)
\* C7: a statement is handed to the connection only if the gate policy of
\* one mode value, SELECT-only or unrestricted, accepts it; a statement
\* both policies reject is never executed, also when set_select_only_mode
\* runs in the middle of execute_query.
C7_ConsistentModeSnapshot ==
    \A t \in Threads :
        thr[t].forwarded
            => \E mode \in BOOLEAN :
                   ExecuteQueryGate(thr[t].query, mode, mode).accepted

(***************************************************************************)
(* Properties of the natural-language request.                             *)
(***************************************************************************)
HasEvent(event) == \E i \in DOMAIN req.events : req.events[i] = event

\* C11: without an API key convert_natural_language_to_sql fails at once:
\* the request ends with the configuration failure, no retry loop is
\* started, the Completion Service is never called, and neither intent
\* analysis nor context building runs.
C11_MissingKeyFailsFast ==
    (~openai_api_key /\ HasEvent("convert"))
        => /\ req.pc = "returned"
           /\ req.conversion
                 = [success |-> FALSE, error |-> <<MsgNoApiKey, None>>]
           /\ gen = NoGeneration
           /\ ~HasEvent("call")
           /\ ~HasEvent("intent")
           /\ ~HasEvent("context")
           /\ req.query_type = "none"
           /\ req.context = <<>>

C11_Witness ==
    /\ ~openai_api_key
    /\ HasEvent("convert")
    /\ req.response = "conversion_error"

\* The text holds the letters SQL and a colon, in any case.
HasSqlMarker(text) == \E p \in 1..Len(text) : MatchesAt(text, p, MarkerSql)

\* The text holds an opening fence and, after it, a closing fence.
HasFencedBlock(text) ==
    \E p \in 1..Len(text), q \in 1..Len(text) :
        /\ q >= p + Len(MarkerFence)
        /\ MatchesAt(text, p, MarkerFence)
        /\ MatchesAt(text, q, MarkerFence)

\* C12: for a reply that holds neither an SQL: marker nor a fenced block
\* the extractor returns None without raising, and the retry controller
\* counts the attempt as an empty extraction: it goes on to the next
\* attempt or, at the last one, fails with the reply attached.
C12_NoMarkerIsRetryableEmpty ==
    (/\ req.reply \in {"sql", "no_sql"}
     /\ ~HasSqlMarker(req.content)
     /\ ~HasFencedBlock(req.content))
        => /\ ~req.extraction.matched
           /\ req.reply = "no_sql"
           /\ gen.pc # "raised"
           /\ \/ /\ gen.pc = "loop"
                 /\ gen.calls < gen.max_retry_attempts
                 /\ gen.attempt_number = gen.calls
              \/ /\ gen.pc = "done"
                 /\ gen.calls = gen.max_retry_attempts
                 /\ ~gen.result.success
                 /\ gen.result.error = <<MsgNoExtract, None>>
                 /\ gen.result.ai_response = req.content

C12_Witness ==
    /\ req.content = RNoMarker
    /\ gen.pc = "loop"
    /\ gen.calls = 1
    /\ gen.attempt_number = 1

TGhost ==
    <<"G","h","o","s","t">>

QSelectGhost ==
    <<"S","E","L","E","C","T"," ","*"," ","F","R","O","M"," ","G","h","o","s",
      "t">>

\* C13: the advisory validator never blocks or alters the outcome: a
\* generated statement is returned as a success with its own trimmed text
\* and goes on to execute_query whatever the warnings; warnings are carried
\* by successful results only; SELECT * FROM Ghost against a schema without
\* Ghost is returned unchanged with a warning naming Ghost.
C13_AdvisoryNeverBlocks ==
    /\ HasEvent("advisory")
          => /\ gen.result.success
             /\ req.conversion.success
             /\ req.conversion.sql_query = Strip(gen.result.sql_query)
             /\ req.pc \in {"execute", "returned"}
             /\ req.pc = "returned"
                    => HasEvent("gate_accepted") \/ HasEvent("gate_rejected")
    /\ "warnings" \in DOMAIN req.conversion => req.conversion.success
    /\ (/\ HasEvent("advisory")
        /\ req.content = Strip(RLowerGhost)
        /\ req.schema.tables = <<TCustomers>>)
          => /\ req.conversion.sql_query = QSelectGhost
             /\ <<WarnTableNotFound, TGhost>> \in req.conversion.warnings

C13_Witness ==
    /\ req.pc = "returned"
    /\ req.content = Strip(RLowerGhost)
    /\ req.schema.tables = <<TCustomers>>
    /\ req.conversion.warnings = {<<WarnTableNotFound, TGhost>>}
    /\ HasEvent("execute")
    /\ last.query = QSelectGhost
    /\ last.result.success

\* The names on the "- name" lines of a context, in order.
ListedTables(context) ==
    LET lines == SelectSeq(context, LAMBDA line : line[1] = "- ")
    IN  [i \in 1..Len(lines) |-> lines[i][2]]

\* C14: the table list of the schema context holds the first 10 tables of
\* the snapshot in snapshot order and none of the later ones; a snapshot of
\* at most 10 tables is listed whole, in order.
C14_FirstTenTablesListed ==
    req.pc = "context"
        => LET tables == req.schema.tables
               listed == ListedTables(req.context)
           IN  /\ Len(listed) = IF Len(tables) > 10 THEN 10 ELSE Len(tables)
               /\ \A i \in 1..Len(listed) : listed[i] = tables[i]
               /\ \A j \in 11..Len(tables) :
                      \A i \in 1..Len(listed) : listed[i] # tables[j]

C14_Witness ==
    /\ req.pc = "context"
    /\ req.schema.tables = Snapshot(12, "descending")
    /\ ListedTables(req.context)
          = <<TableName(12), TableName(11), TableName(10), TableName(9),
              TableName(8), TableName(7), TableName(6), TableName(5),
              TableName(4), TableName(3)>>

\* The first token of a statement: the leading run of identifier
\* characters of the trimmed text.
LeadingToken(query) ==
    LET trimmed == Strip(query)
    IN  SubSeq(trimmed, 1, IdentifierRun(trimmed, 1))

\* C15: in SELECT-only mode every statement the gate accepts has the word
\* SELECT, in any case, as its first token after trimming.
C15_LeadingTokenIsSelect ==
    (IsExecution /\ last.mode_before /\ last.forwarded)
        => Upper(LeadingToken(last.query)) = KwSELECT

\* C16: the retry controller calls the Completion Service one call per
\* step, the call at attempt index i being the (i+1)-th, never more than
\* max_retry_attempts calls, and none once a reply held a statement: a
\* success at index i is returned after exactly i+1 calls and reports
\* attempt_number = i+1.
C16_SequentialAttempts ==
    [][/\ (gen.pc = "loop" /\ gen'.calls # gen.calls)
            => /\ gen'.calls = gen.calls + 1
               /\ gen.attempt_number = gen.calls
               /\ gen'.calls <= gen.max_retry_attempts
               /\ gen'.reply = "sql"
                     => /\ gen'.pc = "done"
                        /\ gen'.result.success
                        /\ gen'.result.attempt_number = gen.attempt_number + 1
                        /\ gen'.result.attempt_number = gen'.calls
               /\ (gen'.pc = "done" /\ gen'.result.success)
                     => gen'.reply = "sql"
       /\ gen.pc \in {"done", "raised"} => gen' = NoGeneration
       /\ gen.pc = "idle" => gen'.calls = 0
      ]_vars

C16_Witness ==
    /\ gen.pc = "done"
    /\ gen.max_retry_attempts = 5
    /\ gen.seen = {"no_sql", "exception", "sql"}
    /\ gen.result.success
    /\ gen.result.attempt_number = 3
    /\ gen.calls = 3

\* C17: the retry controller terminates: once entered, whatever the
\* Completion Service answers at each call, it reaches its one terminal
\* result, a success or a failure, and does not retry forever.
C17_ControllerTerminates ==
    (gen.pc = "loop") ~> (gen.pc = "done" /\ gen.result.success \in BOOLEAN)

C17_Witness ==
    /\ gen.pc = "done"
    /\ gen.max_retry_attempts = MaxRetryAttempts
    /\ gen.calls = MaxRetryAttempts
    /\ gen.seen = {"no_sql", "exception"}
    /\ ~gen.result.success

\* C18: within a request the advisory validator runs on a statement only
\* after the safety gate accepted it, and a statement the gate rejects gets
\* no advisory warnings.
C18_AdvisoryAfterGateAccepts ==
    /\ \A i \in DOMAIN req.events :
          req.events[i] = "advisory"
              => \E j \in 1..(i - 1) : req.events[j] = "gate_accepted"
    /\ HasEvent("gate_rejected") => req.conversion.warnings = {}

\* C19: concurrent set_select_only_mode calls take effect one at a time:
\* a successful toggle returns as previous_mode the mode that was current
\* just before its own write, and its write leaves the mode it requested.
C19_TogglesSerialised ==
    [][\A t \in Threads :
          (thr[t].pc = "set_write" /\ thr'[t].pc = "returned")
              => /\ thr'[t].result.success
                 /\ thr'[t].result.previous_mode = select_only_mode
                 /\ select_only_mode' = thr[t].enabled
      ]_vars

\* C20: the mode is changed only by a successful set_select_only_mode,
\* which leaves the requested value; execute_query and its gate,
\* get_select_only_mode, schema and sample-data retrieval and every step of
\* a natural-language request leave it as it is; nothing changes whether
\* toggling is allowed.
C20_ModeFrame ==
    [][/\ select_only_mode' # select_only_mode
            => /\ last'.op = "set"
               /\ last'.result.success
               /\ last'.mode_before = select_only_mode
               /\ last'.enabled = select_only_mode'
               /\ allow_mode_toggle
               /\ UNCHANGED <<exec_count, gen, req>>
       /\ allow_mode_toggle' = allow_mode_toggle
      ]_vars

C20_Witness ==
    /\ req.pc = "returned"
    /\ HasEvent("execute")
    /\ last.op = "exec"
    /\ last.mode_before
    /\ select_only_mode
    /\ allow_mode_toggle
    /\ exec_count = MaxExec

\* The line break and the word Analysis, in upper case.
MarkerAnalysis ==
    <<"\n","A","N","A","L","Y","S","I","S">>

\* The text after the first SQL: marker of text up to the first blank
\* line, Explanation marker or Analysis marker, stripped.
SqlSpanUpToMarkers(text) ==
    LET p == SetMin({i \in 1..Len(text) : MatchesAt(text, i, MarkerSql)})
        a == p + Len(MarkerSql)
        stops == {e \in a..(Len(text) + 1) :
                     \/ e = Len(text) + 1
                     \/ MatchesAt(text, e, <<"\n", "\n">>)
                     \/ MatchesAt(text, e, MarkerExplanation)
                     \/ MatchesAt(text, e, MarkerAnalysis)}
    IN  Strip(SubSeq(text, a, SetMin(stops) - 1))

\* C21: when the reply has an SQL: marker, the extracted statement is the
\* text after the marker up to the first blank line, Explanation marker or
\* Analysis marker, and holds nothing from an Analysis marker line onward.
C21_SqlStopsAtMarkers ==
    (/\ req.reply \in {"sql", "no_sql"}
     /\ HasSqlMarker(req.content)
     /\ req.extraction.matched)
        => /\ req.extraction.sql = SqlSpanUpToMarkers(req.content)
           /\ \A e \in 1..Len(req.extraction.sql) :
                  ~MatchesAt(req.extraction.sql, e, MarkerAnalysis)

\* A cue of the set occurs in the lower-cased text of the request.
HasCue(cues) ==
    \E word \in cues : Contains(Lower(req.natural_language_query), word)

\* C22: the operation of the Intent Classifier is one of SELECT, INSERT,
\* UPDATE and DELETE, chosen by priority from the cues that occur in the
\* lower-cased text: INSERT, else UPDATE, else DELETE, else SELECT; so it is
\* a function of the text.
C22_IntentByPriority ==
    HasEvent("intent")
        => /\ req.query_type \in {"SELECT", "INSERT", "UPDATE", "DELETE"}
           /\ req.query_type = "INSERT" <=> HasCue(InsertCues)
           /\ req.query_type = "UPDATE"
                 <=> ~HasCue(InsertCues) /\ HasCue(UpdateCues)
           /\ req.query_type = "DELETE"
                 <=> /\ ~HasCue(InsertCues)
                     /\ ~HasCue(UpdateCues)
                     /\ HasCue(DeleteCues)
           /\ req.query_type = "SELECT"
                 <=> /\ ~HasCue(InsertCues)
                     /\ ~HasCue(UpdateCues)
                     /\ ~HasCue(DeleteCues)

C22_Witness ==
    /\ HasEvent("intent")
    /\ HasCue(InsertCues)
    /\ HasCue(DeleteCues)
    /\ req.query_type = "INSERT"

\* The number of times the event is in the request's trace.
Count(event) == Cardinality({i \in DOMAIN req.events : req.events[i] = event})

\* C23: an execution error, a timeout included, is not retried: the
\* generated statement reaches the connection at most once, the Completion
\* Service is not called after it, the handler returns the executor's error
\* unchanged, and the timeout text is given for a timeout and for nothing
\* else.
C23_ExecutionErrorNotRetried ==
    /\ Count("execute") <= 1
    /\ \A i \in DOMAIN req.events, j \in DOMAIN req.events :
          (req.events[i] = "execute" /\ j > i)
              => req.events[j] \notin {"call", "advisory", "execute"}
    /\ (HasEvent("execute") /\ ~last.result.success)
          => /\ req.pc = "returned"
             /\ req.response = "report"
             /\ last.op = "exec"
             /\ last.result.kind = "execution_error"
             /\ req.error = last.result.error
             /\ last.result.error[2] \in DbOutcomes \ {"ok"}
             /\ last.result.error[1] = ExecutionError("timeout")[1]
                    <=> last.result.error[2] = "timeout"

C23_Witness ==
    /\ HasEvent("execute")
    /\ req.pc = "returned"
    /\ req.error = ExecutionError("timeout")

\* The number of lines of the context with the fixed text.
LineCount(context, text) ==
    Cardinality({i \in DOMAIN context : context[i][1] = text})

RECURSIVE ColumnRun(_, _)
\* The number of column lines of the context from line i on.
ColumnRun(context, i) ==
    IF i <= Len(context) /\ context[i][1] = "    "
    THEN 1 + ColumnRun(context, i + 1) ELSE 0

\* C24: the context is bounded whatever the size of the snapshot: with the
\* builder's limits as the constants, it has at most 10 table headings, at
\* most 15 column lines under a label, and at most 10 relationship lines,
\* however many tables the detailed-column map, columns a table, or
\* relationships the snapshot has.
C24_ContextBounded ==
    req.pc = "context"
        => /\ LineCount(req.context, "Table: ") <= TableListLimit
           /\ \A i \in DOMAIN req.context :
                  req.context[i][1] \in {"  Key Columns:", "  Data Columns:"}
                      => ColumnRun(req.context, i + 1) <= DataColumnLimit
           /\ LineCount(req.context, "- . -> .") <= RelationshipLimit

\* C25: SELECT-only mode is at least as restrictive as unrestricted mode:
\* every statement execute_query forwards in SELECT-only mode is one the
\* gate accepts in unrestricted mode too.
C25_SelectOnlyAtLeastAsRestrictive ==
    (/\ last.op \in {"exec", "direct"}
     /\ last.mode_before
     /\ last.forwarded)
        => ExecuteQueryGate(last.query, FALSE, FALSE).accepted

C25_Witness ==
    /\ last.op = "exec"
    /\ last.mode_before
    /\ last.forwarded
    /\ last.query = QSelectCustomers
    /\ ~ExecuteQueryGate(QUpdateAccounts, TRUE, TRUE).accepted
    /\ ExecuteQueryGate(QUpdateAccounts, FALSE, FALSE).accepted

\* C26: when the attempts fail with a mix of replies without a statement
\* and exceptions, the failure is that of the final attempt alone: its raw
\* text after a reply without a statement, its exception text after an
\* exception, and nothing of the earlier attempts.
C26_FailureFromFinalAttempt ==
    (/\ gen.pc = "done"
     /\ ~gen.result.success
     /\ gen.seen = {"no_sql", "exception"})
        => IF gen.reply = "no_sql"
           THEN gen.result
                   = [success |-> FALSE, error |-> <<MsgNoExtract, None>>,
                      ai_response |-> RawText("no_sql", gen.calls - 1)]
           ELSE gen.result
                   = [success |-> FALSE,
                      error |-> <<MsgAllFailed, ExceptionText(gen.calls - 1)>>]

C26_Witness ==
    /\ gen.pc = "done"
    /\ gen.max_retry_attempts = 3
    /\ gen.calls = 3
    /\ gen.seen = {"no_sql", "exception"}
    /\ gen.reply = "exception"
    /\ gen.result.error = <<MsgAllFailed, ExceptionText(2)>>

\* C27: with max_retry_attempts <= 0 the retry controller calls the
\* Completion Service not once and returns the failure "Maximum retry
\* attempts exceeded"; with max_retry_attempts >= 1 it never returns that
\* failure, the final attempt returning before the loop is exhausted.
C27_FallThroughOnlyWithoutAttempts ==
    /\ (gen.pc # "idle" /\ gen.max_retry_attempts <= 0)
          => /\ gen.calls = 0
             /\ gen.pc \in {"loop", "done"}
             /\ gen.pc = "done"
                   => gen.result = [success |-> FALSE,
                                    error |-> <<MsgMaxExceeded, None>>]
    /\ (gen.pc = "done" /\ gen.max_retry_attempts >= 1)
          => /\ gen.calls >= 1
             /\ gen.result.success
                   \/ gen.result.error[1] \in {MsgNoExtract, MsgAllFailed}

C27_Witness ==
    /\ gen.pc = "done"
    /\ gen.max_retry_attempts = 0
    /\ gen.calls = 0
    /\ gen.result.error = <<MsgMaxExceeded, None>>

\* The event is one of execute_query being called with the generated
\* statement.
IsGateEvent(event) == event \in {"gate_accepted", "gate_rejected"}

\* C28: the generated statement is handed to execute_query at most once and
\* only after the conversion returned success; after a failed schema
\* retrieval the Completion Service is not called; after a failed schema
\* retrieval or conversion nothing generated is executed; and the statement
\* handed over is the one the conversion returned.
C28_ExecutedOnceAfterSuccess ==
    /\ Cardinality({i \in DOMAIN req.events : IsGateEvent(req.events[i])}) <= 1
    /\ Count("execute") <= 1
    /\ \A i \in DOMAIN req.events :
          IsGateEvent(req.events[i])
              => /\ req.schema.success
                 /\ gen.pc = "done"
                 /\ gen.result.success
                 /\ req.conversion.success
                 /\ req.conversion.sql_query = gen.result.sql_query
                 /\ \E j \in 1..(i - 1) : req.events[j] = "advisory"
                 /\ last.op = "exec"
                 /\ last.query = req.conversion.sql_query
    /\ \A i \in DOMAIN req.events :
          req.events[i] \in {"call", "advisory", "execute"}
              => req.schema.success
    /\ req.response \in {"schema_error", "conversion_error", "argument_error"}
          => /\ ~HasEvent("gate_accepted")
             /\ ~HasEvent("gate_rejected")
             /\ ~HasEvent("execute")
    /\ req.response = "schema_error" => ~HasEvent("call")

C28_Witness ==
    /\ HasEvent("execute")
    /\ Count("call") = 2
    /\ last.op = "exec"
    /\ last.query = req.conversion.sql_query
    /\ last.query = QSelectCustomers

\* C29: in both modes execute_query refuses an empty or whitespace-only
\* statement with "Empty query provided", whatever the gate layers would
\* say, and executes nothing; the direct-SQL handler refuses an empty text
\* without calling the executor, and the natural-language handler refuses
\* one without retrieving the schema or calling the Completion Service.
C29_EmptyRefusedFirst ==
    [][/\ (last' # last /\ last'.op = "exec" /\ IsEmptyQuery(last'.query))
            => /\ last'.result
                     = [success |-> FALSE, error |-> <<MsgEmpty, NoKeyword>>,
                        kind |-> "rejected"]
               /\ ~last'.forwarded
               /\ exec_count' = exec_count
       /\ (last' # last /\ last'.op = "direct" /\ last'.query = <<>>)
            => /\ ~last'.result.success
               /\ last'.result.kind = "argument_error"
               /\ ~last'.forwarded
               /\ exec_count' = exec_count
       /\ (req.pc = "idle" /\ req'.pc # "idle"
              /\ Strip(req'.natural_language_query) = <<>>)
            => /\ req'.pc = "returned"
               /\ req'.response = "argument_error"
               /\ req'.events = <<>>
               /\ exec_count' = exec_count
               /\ last' = last
               /\ gen' = gen
      ]_vars

C29_Witness ==
    /\ last.op = "exec"
    /\ last.mode_before
    /\ last.query = QBlank
    /\ last.result.error = <<MsgEmpty, NoKeyword>>
    /\ exec_count = 0

\* C30: a SELECT statement that execute_query ran returns at most
\* MAX_QUERY_RESULTS rows, row_count is the number of rows returned, and
\* limited is true exactly when the statement produced more than
\* MAX_QUERY_RESULTS rows, so that rows were dropped.
C30_LimitedIffTruncated ==
    (/\ last.op \in {"exec", "direct"}
     /\ last.result.success
     /\ last.result.kind = "data")
        => /\ last.result.row_count <= MaxQueryResults
           /\ last.result.row_count
                 = IF last.fetched > MaxQueryResults THEN MaxQueryResults
                   ELSE last.fetched
           /\ last.result.limited <=> last.fetched > MaxQueryResults

====
